---- MODULE Spec2Model ----
(***************************************************************************)
(* Model of rpfm's PackedFile (src/src/packfile/packedfile.rs): one entry  *)
(* of a PackFile, whose body is either held in memory or left on disk      *)
(* behind a file handle (Arc<Mutex<BufReader<File>>>) that every entry of  *)
(* the same PackFile shares.                                               *)
(*                                                                         *)
(* Spec      one caller, calls made one after another on one entry.        *)
(* SpecRead  as Spec, restricted to load_data, get_data and                *)
(*           get_data_and_keep_it.                                         *)
(* SpecConc  two callers, each reading its own entry once, through the     *)
(*           handle the two entries share.                                 *)
(*                                                                         *)
(* and of the background loop (src/rpfm_ui/src/background_thread.rs),      *)
(* which owns the open PackFile and answers the commands of the UI, one    *)
(* command at a time.  The library it calls (rpfm_lib's PackFile, codec    *)
(* and schema) is modelled from the specification.                         *)
(*                                                                         *)
(* SpecOpen    opening, creating and dropping PackFiles.                   *)
(* SpecView    decoding tables, storing edited values, purging caches.     *)
(* SpecEdit    adding, renaming and deleting entries.                      *)
(* SpecSave    storing edited values and saving.                           *)
(* SpecToggle  toggling compression and saving.                            *)
(***************************************************************************)
EXTENDS Integers, Sequences, FiniteSets, TLC

\* ------------------------------------------------------------------ bounds
\* Bytes are 0..MaxByte.
MaxByte == 1
\* Longest entry body stored in the file.
MaxLen == 2
\* Longest buffer handed to set_data / read_from_vec.
MaxNewLen == 1
\* Bytes of the file that precede the first entry body (header and index).
HeaderLen == 1

\* The commands the channel to the loop may hold.
MaxInbox == 2

Byte == 0..MaxByte

BytesUpTo(n) == UNION {[1..k -> Byte] : k \in 0..n}

\* The buffers a caller may pass in.
NewData == BytesUpTo(MaxNewLen)

\* Option<PFHVersion>: "None", or the version of the PackFile the entry came from.
PFHVersions == {"PFH4", "PFH5"}

NoVersion == "None"

Threads == {"main", "worker"}

MainThread == "main"

\* ------------------------------------------------------- codec primitives
\* decrypt_packed_file: a self-inverse byte transform (takes no version).
decrypt_packed_file(data) == [i \in 1..Len(data) |-> MaxByte - data[i]]

\* The frames decompress_data accepts: a non-empty run of (count, byte)
\* pairs.
WellFormedFrame(data) ==
    /\ Len(data) >= 2
    /\ Len(data) % 2 = 0

RECURSIVE Inflate(_)
Inflate(data) ==
    IF data = <<>> THEN <<>>
    ELSE [j \in 1..data[1] |-> data[2]] \o Inflate(SubSeq(data, 3, Len(data)))

\* decompress_data: Result<Vec<u8>>, an error on a malformed frame.
decompress_data(data) ==
    IF WellFormedFrame(data)
    THEN [ok |-> TRUE, data |-> Inflate(data)]
    ELSE [ok |-> FALSE, data |-> <<>>]

\* compress_data: every byte as a run of one; the empty buffer as an empty run.
RECURSIVE Deflate(_)
Deflate(data) ==
    IF data = <<>> THEN <<>> ELSE <<1, Head(data)>> \o Deflate(Tail(data))

compress_data(data) == IF data = <<>> THEN <<0, 0>> ELSE Deflate(data)

\* --------------------------------------------------------------- the state
VARIABLES
    disk,          \* the bytes of the PackFile on disk
    filePos,       \* the position of the shared BufReader<File>
    packed_files,  \* the PackedFiles that share the handle
    pc,            \* per caller: "idle"; "lock_seek", "lock_read" (waiting for
                   \* the guard); "seek", "read_exact" (holding it)
    call,          \* per caller: the call in flight
    ret,           \* per caller: the last call it completed and what it returned
    opened,        \* per entry: what the index recorded when it was created
    firstRead,     \* per watched entry: what its first successful read returned
    diskRead,      \* per watched entry: what its first read from disk returned
    lastSet        \* per entry: the last buffer set_data stored

\* The state of the background loop (rpfm_ui/src/background_thread.rs).
VARIABLES
    pack_file_decoded,         \* the PackFile in focus
    pack_file_decoded_extra,   \* the PackFile opened for "add from PackFile"
    SETTINGS,                  \* the settings the loop reads
    GAME_SELECTED,             \* the game selected
    SCHEMA,                    \* the schema loaded, if any
    DEPENDENCY_DATABASE,       \* the entries of the dependency PackFiles
    FAKE_DEPENDENCY_DATABASE,  \* the tables of the game's Pak file
    files,                     \* the PackFiles on disk, by path
    inbox,                     \* the commands sent to the loop and not yet received
    handling,                  \* the loop has received `command` and is in its arm
    alive,                     \* the thread of the loop has not panicked
    command,                   \* the command the loop received last
    responses                  \* the responses it has sent since receiving it

entry == <<disk, filePos, packed_files, pc, call, ret, opened, firstRead, diskRead, lastSet>>

statics == <<SETTINGS, GAME_SELECTED, SCHEMA, DEPENDENCY_DATABASE, FAKE_DEPENDENCY_DATABASE>>

loop ==
    <<pack_file_decoded, pack_file_decoded_extra, statics, files, inbox, handling,
      alive, command, responses>>

vars == <<entry, loop>>

ghosts == <<opened, firstRead, diskRead, lastSet>>

Ents == DOMAIN packed_files

\* PackedFileData::OnMemory(data, is_compressed, is_encrypted)
OnMemory(data, is_compressed, is_encrypted) ==
    [tag |-> "OnMemory", data |-> data,
     is_compressed |-> is_compressed, is_encrypted |-> is_encrypted]

\* PackedFileData::OnDisk(file, position, size); the file is the shared handle.
OnDisk(position, size) == [tag |-> "OnDisk", position |-> position, size |-> size]

IsOnMemory(pf) == pf.data.tag = "OnMemory"

IsOnDisk(pf) == pf.data.tag = "OnDisk"

\* PackedFile::read_from_vec
read_from_vec(path, timestamp, is_compressed, data) ==
    [path |-> path, timestamp |-> timestamp, is_compressed |-> is_compressed,
     is_encrypted |-> NoVersion, data |-> OnMemory(data, is_compressed, FALSE)]

\* PackedFile::read_from_data
read_from_data(path, timestamp, is_compressed, is_encrypted, data) ==
    [path |-> path, timestamp |-> timestamp, is_compressed |-> is_compressed,
     is_encrypted |-> is_encrypted, data |-> data]

\* The bytes of the file at [position, position + size).
Slice(position, size) == SubSeq(disk, position + 1, position + size)

NoCall == [op |-> "none", ent |-> 0]

Unset == [set |-> FALSE, status |-> "Ok", val |-> <<>>]

Result(status, val) == [set |-> TRUE, status |-> status, val |-> val]

NoInfo ==
    [is_compressed |-> FALSE, is_encrypted |-> FALSE,
     should_be_compressed |-> FALSE, should_be_encrypted |-> NoVersion]

\* What a completed call leaves in ret: the match arm it took ("OnMemory" or
\* "OnDisk"), the bytes read_exact put in its buffer, and the value returned.
Returned(op, e, from, status, raw, val) ==
    [op |-> op, ent |-> e, from |-> from, status |-> status, raw |-> raw,
     val |-> val, info |-> NoInfo]

NoRet == Returned("none", 0, "none", "Ok", <<>>, <<>>)

\* ------------------------------------------------- the loop: what it holds
\* The paths entries are stored at.  The type of an entry is read off its
\* path (a table under db/, a .loc file, a text file).
PathDB == <<"db", "t_tables", "data">>

PathLoc == <<"text", "t.loc">>

PathText == <<"t.txt">>

Paths == {PathDB, PathLoc, PathText}

\* Paths of the other types of PackedFile a view may ask for.
PathImage == <<"ui", "i.png">>

PathCaVp8 == <<"movies", "m.ca_vp8">>

PathRigidModel == <<"variantmeshes", "m.rigid_model_v2">>

\* The reserved path of the PackFile's notes (lines 433 and 507).
NotesPath == <<"notes.rpfm_reserved">>

\* The PackFiles there may be on disk.
PackFilePaths == {"a.pack", "b.pack"}

NoFile == [exists |-> FALSE]

\* SUPPORTED_GAMES, with pfh_version[0] of each game.
Games == {"warhammer_2", "attila"}

PfhVersionOf(game) == IF game = "warhammer_2" THEN "PFH5" ELSE "PFH4"

\* Option<Schema>: None, or the versions of the definitions it holds.
NoSchema == [loaded |-> FALSE, db |-> {}, loc |-> {}]

SchemaOf(game) ==
    [loaded |-> TRUE,
     db |-> IF game = "warhammer_2" THEN {0} ELSE {1},
     loc |-> {0}]

\* DecodedPackedFile: Unknown (nothing decoded), or a DB, a Loc, a Text, an
\* Image, a CaVp8 or a RigidModel.
\* `well_formed` is whether the value fits its definition, that is whether
\* it can be encoded.
Decoded(kind, version, rows, well_formed) ==
    [kind |-> kind, version |-> version, rows |-> rows, well_formed |-> well_formed]

NotDecoded == Decoded("Unknown", 0, <<>>, TRUE)

\* Option<String>, the notes of a PackFile.
NoNotes == [some |-> FALSE, contents |-> <<>>]

SomeNotes(contents) == [some |-> TRUE, contents |-> contents]

\* PackFile::new(): no path, no entries, no dependencies.
PackFile_new ==
    [file_path |-> "", pfh_version |-> "PFH5", compressed |-> FALSE,
     notes |-> NoNotes, pack_files |-> <<>>, packed_files |-> <<>>]

\* PackFile::new_with_name
new_with_name(name, version) ==
    [PackFile_new EXCEPT !.file_path = name, !.pfh_version = version]

\* An entry of a PackFile: the raw PackedFile, the file its OnDisk body is
\* read from, and the decoded cache.
Entry(raw, file, decoded) == [raw |-> raw, file |-> file, decoded |-> decoded]

\* The settings of a command that carries none.
NoSettings == [use_lazy_loading |-> FALSE, check_for_missing_table_definitions |-> FALSE]

\* Command::<name>(..), with the arguments the command carries.
Command(name) ==
    [name |-> name, path |-> <<>>, paths |-> <<>>, file |-> "", files |-> <<>>,
     decoded |-> NotDecoded, data |-> <<>>, state |-> FALSE, game |-> "",
     settings |-> NoSettings, schema |-> NoSchema, sources |-> <<>>]

NoCommand == Command("None")

\* The loop before it has received anything, with nothing on disk.
LoopAtRest ==
    /\ pack_file_decoded = PackFile_new
    /\ pack_file_decoded_extra = PackFile_new
    /\ SETTINGS = [use_lazy_loading |-> FALSE, check_for_missing_table_definitions |-> FALSE]
    /\ GAME_SELECTED = "warhammer_2"
    /\ SCHEMA = NoSchema
    /\ DEPENDENCY_DATABASE = <<>>
    /\ FAKE_DEPENDENCY_DATABASE = <<>>
    /\ files = [f \in PackFilePaths |-> NoFile]
    /\ inbox = <<>>
    /\ handling = FALSE
    /\ alive = TRUE
    /\ command = NoCommand
    /\ responses = <<>>

\* ------------------------------------------------- the bodies of the calls
\* Mutants of LoadedData: the flags are dropped, or both set; the bytes are
\* decrypted.
LoadedData_NoFlags(pf, data) == OnMemory(data, FALSE, FALSE)

LoadedData_AllFlagged(pf, data) == OnMemory(data, TRUE, TRUE)

LoadedData_Decrypted(pf, data) ==
    OnMemory(IF pf.is_encrypted # NoVersion THEN decrypt_packed_file(data) ELSE data,
             pf.is_compressed, FALSE)

\* load_data, line 70: the bytes as read, flagged by the entry's own fields.
LoadedData(pf, data) ==
    OnMemory(data, pf.is_compressed, pf.is_encrypted # NoVersion)

\* Mutant of GetDataOnMemory: decompresses before it decrypts.
GetDataOnMemory_Swapped(body) ==
    LET d1 == IF body.is_compressed THEN decompress_data(body.data)
              ELSE [ok |-> TRUE, data |-> body.data]
    IN  IF d1.ok
        THEN [status |-> "Ok",
              val |-> IF body.is_encrypted THEN decrypt_packed_file(d1.data) ELSE d1.data]
        ELSE [status |-> "Decompress", val |-> <<>>]

\* Mutant of GetDataOnMemory: the bytes are returned as they are stored.
GetDataOnMemory_Raw(body) == [status |-> "Ok", val |-> body.data]

\* get_data, lines 80-85: the OnMemory arm.
GetDataOnMemory(body) ==
    LET d1 == IF body.is_encrypted THEN decrypt_packed_file(body.data) ELSE body.data
        d2 == decompress_data(d1)
    IN  IF body.is_compressed
        THEN (IF d2.ok THEN [status |-> "Ok", val |-> d2.data]
                       ELSE [status |-> "Decompress", val |-> <<>>])
        ELSE [status |-> "Ok", val |-> d1]

\* get_data, lines 90-92: the OnDisk arm, after read_exact filled `data`.
GetDataOnDisk(pf, data) ==
    LET d1 == IF pf.is_encrypted # NoVersion THEN decrypt_packed_file(data) ELSE data
        d2 == decompress_data(d1)
    IN  IF pf.is_compressed
        THEN (IF d2.ok THEN [status |-> "Ok", val |-> d2.data]
                       ELSE [status |-> "Decompress", val |-> <<>>])
        ELSE [status |-> "Ok", val |-> d1]

\* Mutant of KeepOnMemory: the flags are left as they were.
KeepOnMemory_FlagsKept(body) ==
    LET d1 == IF body.is_encrypted THEN decrypt_packed_file(body.data) ELSE body.data
        d2 == decompress_data(d1)
    IN  IF body.is_compressed
        THEN (IF d2.ok
              THEN [status |-> "Ok", val |-> d2.data,
                    body |-> OnMemory(d2.data, body.is_compressed, body.is_encrypted)]
              ELSE [status |-> "Decompress", val |-> <<>>,
                    body |-> OnMemory(d1, body.is_compressed, body.is_encrypted)])
        ELSE [status |-> "Ok", val |-> d1,
              body |-> OnMemory(d1, body.is_compressed, body.is_encrypted)]

\* get_data_and_keep_it, lines 100-106: the OnMemory arm works in place, so
\* the decrypted bytes are already stored when decompress_data fails.
KeepOnMemory(body) ==
    LET d1 == IF body.is_encrypted THEN decrypt_packed_file(body.data) ELSE body.data
        d2 == decompress_data(d1)
    IN  IF body.is_compressed
        THEN (IF d2.ok
              THEN [status |-> "Ok", val |-> d2.data,
                    body |-> OnMemory(d2.data, FALSE, FALSE)]
              ELSE [status |-> "Decompress", val |-> <<>>,
                    body |-> OnMemory(d1, body.is_compressed, body.is_encrypted)])
        ELSE [status |-> "Ok", val |-> d1, body |-> OnMemory(d1, FALSE, FALSE)]

\* Mutant of GetDataStored: get_data caches what it decoded.
GetDataStored_Cached(pf, r) ==
    IF r.status = "Ok" THEN OnMemory(r.val, FALSE, FALSE) ELSE pf.data

\* get_data, line 78: it takes &self, so the body it leaves is the body it
\* found, whatever it read and returned.
GetDataStored(pf, r) == pf.data

\* Mutants of KeepOnDisk: the decoded bytes are returned but not stored;
\* the bytes are decompressed before they are decrypted.
KeepOnDisk_NotStored(pf, data) ==
    LET d1 == IF pf.is_encrypted # NoVersion THEN decrypt_packed_file(data) ELSE data
        d2 == decompress_data(d1)
    IN  IF pf.is_compressed
        THEN (IF d2.ok
              THEN [status |-> "Ok", val |-> d2.data, body |-> pf.data]
              ELSE [status |-> "Decompress", val |-> <<>>, body |-> pf.data])
        ELSE [status |-> "Ok", val |-> d1, body |-> pf.data]

KeepOnDisk_Swapped(pf, data) ==
    LET d1 == IF pf.is_compressed THEN decompress_data(data)
              ELSE [ok |-> TRUE, data |-> data]
        d2 == IF pf.is_encrypted # NoVersion THEN decrypt_packed_file(d1.data) ELSE d1.data
    IN  IF d1.ok
        THEN [status |-> "Ok", val |-> d2, body |-> OnMemory(d2, FALSE, FALSE)]
        ELSE [status |-> "Decompress", val |-> <<>>, body |-> pf.data]

\* get_data_and_keep_it, lines 111-117: the OnDisk arm.
KeepOnDisk(pf, data) ==
    LET d1 == IF pf.is_encrypted # NoVersion THEN decrypt_packed_file(data) ELSE data
        d2 == decompress_data(d1)
    IN  IF pf.is_compressed
        THEN (IF d2.ok
              THEN [status |-> "Ok", val |-> d2.data,
                    body |-> OnMemory(d2.data, FALSE, FALSE)]
              ELSE [status |-> "Decompress", val |-> <<>>, body |-> pf.data])
        ELSE [status |-> "Ok", val |-> d1, body |-> OnMemory(d1, FALSE, FALSE)]

\* Mutant of SetDataBody: the buffer is stored as still compressed.
SetDataBody_Compressed(data) == OnMemory(data, TRUE, FALSE)

\* set_data, line 136.
SetDataBody(data) == OnMemory(data, FALSE, FALSE)

\* Mutant of get_size: the size in memory is off by one.
get_size_OffByOne(pf) ==
    IF IsOnMemory(pf) THEN Len(pf.data.data) + 1 ELSE pf.data.size

\* get_size; `data.len() as u32` is the length for every buffer below 4 GiB.
get_size(pf) ==
    IF IsOnMemory(pf) THEN Len(pf.data.data) ELSE pf.data.size

\* ------------------------------------------------------------ bookkeeping
\* &mut self excludes every other borrow of the entry, &self only &mut ones.
MutOps == {"load_data", "get_data_and_keep_it"}

CanBorrow(t, e, mutable) ==
    \A u \in Threads \ {t} :
        (pc[u] # "idle" /\ call[u].ent = e) => (~mutable /\ call[u].op \notin MutOps)

Idle(t, e) == pc[t] = "idle" /\ e \in Ents

\* The first successful read of e, and the first read of e from disk that
\* got its bytes.
NoteRead(e, from, r) ==
    /\ firstRead' = IF e \in DOMAIN firstRead /\ r.status = "Ok" /\ ~firstRead[e].set
                    THEN [firstRead EXCEPT ![e] = Result("Ok", r.val)]
                    ELSE firstRead
    /\ diskRead' = IF e \in DOMAIN diskRead /\ from = "OnDisk" /\ ~diskRead[e].set
                   THEN [diskRead EXCEPT ![e] = Result(r.status, r.val)]
                   ELSE diskRead

Start(t, op, e) ==
    /\ pc' = [pc EXCEPT ![t] = "lock_seek"]
    /\ call' = [call EXCEPT ![t] = [op |-> op, ent |-> e]]
    /\ UNCHANGED <<disk, filePos, packed_files, ret, ghosts>>

Finish(t, r) ==
    /\ pc' = [pc EXCEPT ![t] = "idle"]
    /\ call' = [call EXCEPT ![t] = NoCall]
    /\ ret' = [ret EXCEPT ![t] = r]

\* ---------------------------------------------------------------- actions
\* load_data: nothing to do unless the body is OnDisk.
LoadData(t, e) ==
    /\ UNCHANGED loop
    /\ Idle(t, e)
    /\ CanBorrow(t, e, TRUE)
    /\ IF IsOnDisk(packed_files[e])
       THEN Start(t, "load_data", e)
       ELSE /\ ret' = [ret EXCEPT ![t] =
                        Returned("load_data", e, "OnMemory", "Ok", <<>>, <<>>)]
            /\ UNCHANGED <<disk, filePos, packed_files, pc, call, ghosts>>

\* get_data
GetData(t, e) ==
    /\ UNCHANGED loop
    /\ Idle(t, e)
    /\ CanBorrow(t, e, FALSE)
    /\ IF IsOnDisk(packed_files[e])
       THEN Start(t, "get_data", e)
       ELSE LET r == GetDataOnMemory(packed_files[e].data)
            IN  /\ packed_files' =
                       [packed_files EXCEPT ![e].data = GetDataStored(packed_files[e], r)]
                /\ ret' = [ret EXCEPT ![t] =
                            Returned("get_data", e, "OnMemory", r.status, <<>>, r.val)]
                /\ NoteRead(e, "OnMemory", r)
                /\ UNCHANGED <<disk, filePos, pc, call, opened, lastSet>>

\* get_data_and_keep_it
GetDataAndKeepIt(t, e) ==
    /\ UNCHANGED loop
    /\ Idle(t, e)
    /\ CanBorrow(t, e, TRUE)
    /\ IF IsOnDisk(packed_files[e])
       THEN Start(t, "get_data_and_keep_it", e)
       ELSE LET r == KeepOnMemory(packed_files[e].data)
            IN  /\ packed_files' = [packed_files EXCEPT ![e].data = r.body]
                /\ ret' = [ret EXCEPT ![t] =
                            Returned("get_data_and_keep_it", e, "OnMemory",
                                     r.status, <<>>, r.val)]
                /\ NoteRead(e, "OnMemory", r)
                /\ UNCHANGED <<disk, filePos, pc, call, opened, lastSet>>

\* The caller holds the guard of the handle's mutex.
Holds(t) == pc[t] \in {"seek", "read_exact"}

\* Mutant of Lock: the guard is handed out while another caller holds one.
Lock_NotExclusive(t) ==
    /\ UNCHANGED loop
    /\ pc[t] \in {"lock_seek", "lock_read"}
    /\ pc' = [pc EXCEPT ![t] = IF pc[t] = "lock_seek" THEN "seek" ELSE "read_exact"]
    /\ UNCHANGED <<disk, filePos, packed_files, call, ret, ghosts>>

\* file.lock().unwrap(): the caller waits until no guard is out, and takes
\* one.  No caller panics with a guard in hand, so the mutex is never
\* poisoned and unwrap() never fails.
Lock(t) ==
    /\ UNCHANGED loop
    /\ pc[t] \in {"lock_seek", "lock_read"}
    /\ \A u \in Threads : ~Holds(u)
    /\ pc' = [pc EXCEPT ![t] = IF pc[t] = "lock_seek" THEN "seek" ELSE "read_exact"]
    /\ UNCHANGED <<disk, filePos, packed_files, call, ret, ghosts>>

\* file.lock().unwrap().seek(SeekFrom::Start(position))?  The guard is
\* dropped at the end of the statement.
Seek(t) ==
    /\ UNCHANGED loop
    /\ pc[t] = "seek"
    /\ filePos' = packed_files[call[t].ent].data.position
    /\ pc' = [pc EXCEPT ![t] = "lock_read"]
    /\ UNCHANGED <<disk, packed_files, call, ret, ghosts>>

\* The seek fails: `?` returns the error, the entry is untouched.
SeekFails(t) ==
    /\ UNCHANGED loop
    /\ pc[t] = "seek"
    /\ Finish(t, Returned(call[t].op, call[t].ent, "OnDisk", "Io", <<>>, <<>>))
    /\ UNCHANGED <<disk, filePos, packed_files, ghosts>>

\* What each call does with the bytes read_exact put in `data`.
AfterRead(t, data) ==
    LET e == call[t].ent
        pf == packed_files[e]
    IN  CASE call[t].op = "load_data" ->
               /\ packed_files' = [packed_files EXCEPT ![e].data = LoadedData(pf, data)]
               /\ Finish(t, Returned("load_data", e, "OnDisk", "Ok", data, <<>>))
               /\ UNCHANGED ghosts
          [] call[t].op = "get_data" ->
               LET r == GetDataOnDisk(pf, data)
               IN  /\ packed_files' = [packed_files EXCEPT ![e].data = GetDataStored(pf, r)]
                   /\ Finish(t, Returned("get_data", e, "OnDisk", r.status, data, r.val))
                   /\ NoteRead(e, "OnDisk", r)
                   /\ UNCHANGED <<opened, lastSet>>
          [] call[t].op = "get_data_and_keep_it" ->
               LET r == KeepOnDisk(pf, data)
               IN  /\ packed_files' = [packed_files EXCEPT ![e].data = r.body]
                   /\ Finish(t, Returned("get_data_and_keep_it", e, "OnDisk",
                                         r.status, data, r.val))
                   /\ NoteRead(e, "OnDisk", r)
                   /\ UNCHANGED <<opened, lastSet>>

\* file.lock().unwrap().read_exact(&mut data)?  It reads `size` bytes from
\* wherever the handle stands, and the rest of the call follows: it touches
\* only the caller's buffer and the entry the caller has borrowed.
ReadExact(t) ==
    LET size == packed_files[call[t].ent].data.size
    IN  /\ UNCHANGED loop
        /\ pc[t] = "read_exact"
        /\ (size = 0 \/ filePos + size <= Len(disk))
        /\ filePos' = filePos + size
        /\ AfterRead(t, Slice(filePos, size))
        /\ UNCHANGED disk

\* Mutant of ReadExactFails: the call goes back to the seek and tries again.
ReadExactFails_Retried(t) ==
    /\ UNCHANGED loop
    /\ pc[t] = "read_exact"
    /\ pc' = [pc EXCEPT ![t] = "lock_seek"]
    /\ UNCHANGED <<disk, filePos, packed_files, call, ret, ghosts>>

\* read_exact fails, at the end of the file or with any other I/O error.
ReadExactFails(t) ==
    LET size == packed_files[call[t].ent].data.size
    IN  /\ UNCHANGED loop
        /\ pc[t] = "read_exact"
        /\ filePos' = IF size > 0 /\ filePos + size > Len(disk) /\ filePos < Len(disk)
                      THEN Len(disk) ELSE filePos
        /\ Finish(t, Returned(call[t].op, call[t].ent, "OnDisk", "Io", <<>>, <<>>))
        /\ UNCHANGED <<disk, packed_files, ghosts>>

\* get_data_and_info_from_memory: hands out the five fields of an entry
\* held in memory, an error for one on disk.
GetDataAndInfoFromMemory(t, e) ==
    LET pf == packed_files[e]
    IN  /\ UNCHANGED loop
        /\ Idle(t, e)
        /\ CanBorrow(t, e, TRUE)
        /\ ret' = [ret EXCEPT ![t] =
                    IF IsOnMemory(pf)
                    THEN [Returned("get_data_and_info_from_memory", e, "OnMemory",
                                   "Ok", <<>>, pf.data.data)
                          EXCEPT !.info =
                            [is_compressed |-> pf.data.is_compressed,
                             is_encrypted |-> pf.data.is_encrypted,
                             should_be_compressed |-> pf.is_compressed,
                             should_be_encrypted |-> pf.is_encrypted]]
                    ELSE Returned("get_data_and_info_from_memory", e, "OnDisk",
                                  "PackedFileDataIsNotInMemory", <<>>, <<>>)]
        /\ UNCHANGED <<disk, filePos, packed_files, pc, call, ghosts>>

\* Mutant of SetData: the entry's is_compressed is cleared with the flags.
SetData_PolicyCleared(t, e, data) ==
    /\ UNCHANGED loop
    /\ Idle(t, e)
    /\ CanBorrow(t, e, TRUE)
    /\ packed_files' = [packed_files EXCEPT ![e].data = SetDataBody(data),
                                            ![e].is_compressed = FALSE]
    /\ lastSet' = [lastSet EXCEPT ![e] = Result("Ok", data)]
    /\ ret' = [ret EXCEPT ![t] = Returned("set_data", e, "none", "Ok", <<>>, <<>>)]
    /\ UNCHANGED <<disk, filePos, pc, call, opened, firstRead, diskRead>>

\* set_data
SetData(t, e, data) ==
    /\ UNCHANGED loop
    /\ Idle(t, e)
    /\ CanBorrow(t, e, TRUE)
    /\ packed_files' = [packed_files EXCEPT ![e].data = SetDataBody(data)]
    /\ lastSet' = [lastSet EXCEPT ![e] = Result("Ok", data)]
    /\ ret' = [ret EXCEPT ![t] = Returned("set_data", e, "none", "Ok", <<>>, <<>>)]
    /\ UNCHANGED <<disk, filePos, pc, call, opened, firstRead, diskRead>>

\* The public fields is_compressed and is_encrypted are written directly.
SetFields(t, e, is_compressed, is_encrypted) ==
    /\ UNCHANGED loop
    /\ Idle(t, e)
    /\ CanBorrow(t, e, TRUE)
    /\ packed_files' = [packed_files EXCEPT ![e].is_compressed = is_compressed,
                                            ![e].is_encrypted = is_encrypted]
    /\ ret' = [ret EXCEPT ![t] = Returned("set_fields", e, "none", "Ok", <<>>, <<>>)]
    /\ UNCHANGED <<disk, filePos, pc, call, ghosts>>

\* ---------------------------------------------------------- specifications
Header == [i \in 1..HeaderLen |-> 0]

EntryPath(i) == <<"db", "table", i>>

Recorded(pf) ==
    [is_compressed |-> pf.is_compressed, is_encrypted |-> pf.is_encrypted,
     onDisk |-> IsOnDisk(pf), size |-> get_size(pf),
     position |-> IF IsOnDisk(pf) THEN pf.data.position ELSE 0,
     data |-> IF IsOnMemory(pf) THEN pf.data.data ELSE <<>>]

\* The state once the entries `pfs` have been created over the file `bytes`;
\* the handle stands where the index ended.  The reads of the entries in
\* `watched` are recorded in firstRead and diskRead.
Created(bytes, pfs, watched) ==
    /\ disk = bytes
    /\ filePos = HeaderLen
    /\ packed_files = pfs
    /\ pc = [t \in Threads |-> "idle"]
    /\ call = [t \in Threads |-> NoCall]
    /\ ret = [t \in Threads |-> NoRet]
    /\ opened = [e \in DOMAIN pfs |-> Recorded(pfs[e])]
    /\ firstRead = [e \in watched |-> Unset]
    /\ diskRead = [e \in watched |-> Unset]
    /\ lastSet = [e \in DOMAIN pfs |-> Unset]
    /\ LoopAtRest

\* One entry, left on disk by a lazy open ...
InitOnDisk(watched) ==
    \E body \in BytesUpTo(MaxLen), c \in BOOLEAN, v \in {NoVersion} \cup PFHVersions :
        Created(Header \o body,
                <<read_from_data(EntryPath(1), 0, c, v, OnDisk(HeaderLen, Len(body)))>>,
                watched)

\* ... or created from a buffer.
InitFromVec(watched) ==
    \E data \in NewData, c \in BOOLEAN :
        Created(Header, <<read_from_vec(EntryPath(1), 0, c, data)>>, watched)

Init == InitOnDisk({}) \/ InitFromVec({})

InitRead == InitOnDisk({1}) \/ InitFromVec({1})

ReadCalls(t) ==
    \/ \E e \in Ents : LoadData(t, e)
    \/ \E e \in Ents : GetData(t, e)
    \/ \E e \in Ents : GetDataAndKeepIt(t, e)
    \/ Lock(t)
    \/ Seek(t)
    \/ SeekFails(t)
    \/ ReadExact(t)
    \/ ReadExactFails(t)

\* The entry a parallel iterator over the entries hands to each caller.
Item(t) == IF t = MainThread THEN 1 ELSE 2

\* A caller that makes one of these calls, once, on its entry.
DiskCalls(t) ==
    \/ ret[t] = NoRet /\ LoadData(t, Item(t))
    \/ ret[t] = NoRet /\ GetData(t, Item(t))
    \/ ret[t] = NoRet /\ GetDataAndKeepIt(t, Item(t))
    \/ Lock(t)
    \/ Seek(t)
    \/ SeekFails(t)
    \/ ReadExact(t)
    \/ ReadExactFails(t)

WriteCalls(t) ==
    \/ \E e \in Ents : GetDataAndInfoFromMemory(t, e)
    \/ \E e \in Ents, data \in NewData : SetData(t, e, data)
    \/ \E e \in Ents, c \in BOOLEAN, v \in {NoVersion} \cup PFHVersions :
          SetFields(t, e, c, v)

NextRead == ReadCalls(MainThread)

SpecRead == InitRead /\ [][NextRead]_vars

Next == ReadCalls(MainThread) \/ WriteCalls(MainThread)

Spec == Init /\ [][Next]_vars

\* Two entries of one PackFile left on disk, their bodies one after the other
\* in the file, and two callers (the items of a parallel iterator over the
\* entries, say) that read them through the one handle.
InitConc ==
    \E b1 \in BytesUpTo(MaxLen), b2 \in BytesUpTo(MaxLen),
       c \in BOOLEAN, v \in {NoVersion} \cup PFHVersions :
        Created(Header \o b1 \o b2,
                <<read_from_data(EntryPath(1), 0, c, v, OnDisk(HeaderLen, Len(b1))),
                  read_from_data(EntryPath(2), 0, c, v,
                                 OnDisk(HeaderLen + Len(b1), Len(b2)))>>,
                {})

NextConc == \E t \in Threads : DiskCalls(t)

SpecConc == InitConc /\ [][NextConc]_vars

\* --------------------------------------------- the loop: PackFiles on disk
\* A PackFile on disk: its header and, per index record, the path, the
\* compressed marker and the body as stored.  No entry is encrypted.
Image(version, compressed, records) ==
    [exists |-> TRUE, pfh_version |-> version, compressed |-> compressed,
     packed_files |-> records]

Record(path, is_compressed, data) ==
    [path |-> path, is_compressed |-> is_compressed, data |-> data]

\* The PackFiles that may be on disk when the loop starts: two that hold a
\* table at the same path, one of them with a text beside it, and one whose
\* bodies are compressed, the second of them with a corrupt frame.
SmallPack == Image("PFH5", FALSE, <<Record(PathDB, FALSE, <<0>>)>>)

ModPack ==
    Image("PFH5", FALSE, <<Record(PathDB, FALSE, <<1>>), Record(PathText, FALSE, <<1>>)>>)

\* A compressed PackFile whose text entry's frame is damaged.
CompressedPack ==
    Image("PFH5", TRUE, <<Record(PathLoc, TRUE, <<1, 0>>), Record(PathText, TRUE, <<0>>)>>)

Catalogue == {SmallPack, ModPack, CompressedPack}

\* What may lie at the paths of the disk: at each, one of `catalogue`.
Disks(catalogue) == [PackFilePaths -> catalogue]

\* A PackFile with a text, an image and a model, and with an entry at the
\* path reserved for the notes.
MediaPack ==
    Image("PFH5", FALSE,
          <<Record(PathText, FALSE, <<1>>), Record(PathImage, FALSE, <<0>>),
            Record(PathRigidModel, FALSE, <<1, 0>>), Record(NotesPath, FALSE, <<0>>)>>)

\* A disk with one plain PackFile.
ModDisk == [f \in PackFilePaths |-> IF f = "a.pack" THEN ModPack ELSE NoFile]

\* A disk with a plain PackFile and a compressed one.
WorkDisk == [f \in PackFilePaths |-> IF f = "a.pack" THEN ModPack ELSE CompressedPack]

\* A disk with a PackFile of texts, images and models, and a compressed one.
MediaDisk == [f \in PackFilePaths |-> IF f = "a.pack" THEN MediaPack ELSE CompressedPack]

\* The lists of paths an open may be asked for.
PathLists ==
    {<<f>> : f \in PackFilePaths} \cup {<<f, g>> : f, g \in PackFilePaths}

\* The PackFiles of the game's data folder, in the order they are loaded.
CAPackFiles == <<"a.pack", "b.pack">>

\* ------------------------------------------------ the loop: PackFile (lib)
Indices(pack) == 1..Len(pack.packed_files)

PathsOf(pack) == {pack.packed_files[i].raw.path : i \in Indices(pack)}

\* The first index at which `entries` holds `path`, 0 if none.
IndexIn(entries, path) ==
    LET hits == {i \in 1..Len(entries) : entries[i].raw.path = path}
    IN  IF hits = {} THEN 0 ELSE CHOOSE i \in hits : \A j \in hits : i <= j

\* PackFile::get_ref_mut_packed_file_by_path: Some(index) or None (0).
get_ref_mut_packed_file_by_path(pack, path) == IndexIn(pack.packed_files, path)

\* Mutant of Put: the entry already at the path is kept.
Put_FirstWins(entries, e) ==
    LET i == IndexIn(entries, e.raw.path)
    IN  IF i = 0 THEN Append(entries, e) ELSE entries

\* The entry at `path` is replaced where it stands, a new one is appended.
Put(entries, e) ==
    LET i == IndexIn(entries, e.raw.path)
    IN  IF i = 0 THEN Append(entries, e) ELSE [entries EXCEPT ![i] = e]

\* The entry made of record i of the PackFile at `file`: its body is left on
\* disk by a lazy open, read at once otherwise.
ReadEntry(file, i, lazy) ==
    LET rec == files[file].packed_files[i]
    IN  Entry(read_from_data(rec.path, 0, rec.is_compressed, NoVersion,
                             IF lazy THEN OnDisk(i, Len(rec.data))
                             ELSE OnMemory(rec.data, rec.is_compressed, FALSE)),
              IF lazy THEN file ELSE "", NotDecoded)

RECURSIVE ReadEntries(_, _, _, _)
ReadEntries(entries, file, i, lazy) ==
    IF i > Len(files[file].packed_files) THEN entries
    ELSE ReadEntries(Put(entries, ReadEntry(file, i, lazy)), file, i + 1, lazy)

\* The indices of the PackFiles at `paths` merged in the order given: a later
\* PackFile's entry takes the place of an earlier one at the same path.
RECURSIVE MergeIndices(_, _, _)
MergeIndices(entries, paths, lazy) ==
    IF paths = <<>> THEN entries
    ELSE MergeIndices(ReadEntries(entries, Head(paths), 1, lazy), Tail(paths), lazy)

Ok(value) == [ok |-> TRUE, error |-> "", value |-> value]

Err(error, value) == [ok |-> FALSE, error |-> error, value |-> value]

\* PackFile::open_packfiles: an error if any of the files cannot be read.
open_packfiles(paths, lazy) ==
    IF paths = <<>> \/ \E i \in 1..Len(paths) : ~files[paths[i]].exists
    THEN Err("IOGenericOpen", PackFile_new)
    ELSE Ok([file_path |-> IF Len(paths) = 1 THEN paths[1] ELSE "",
             pfh_version |-> files[paths[1]].pfh_version,
             compressed |-> files[paths[Len(paths)]].compressed,
             notes |-> NoNotes,
             pack_files |-> <<>>,
             packed_files |-> MergeIndices(<<>>, paths, lazy)])

\* PackFile::open_all_ca_packfiles: the PackFiles of the game, lazily.
open_all_ca_packfiles == open_packfiles(CAPackFiles, TRUE)

\* PackFileInfo::from(&pack_file): the summary of a PackFile.
PackFileInfo(pack) ==
    [file_path |-> pack.file_path, pfh_version |-> pack.pfh_version,
     compression_state |-> pack.compressed]

\* ------------------------------------------- the loop: PackedFile (lib)
\* PackedFileType::get_packed_file_type: the type a path stands for.
get_packed_file_type(path) ==
    CASE path = PathDB -> "DB"
      [] path = PathLoc -> "Loc"
      [] path = PathImage -> "Image"
      [] path = PathCaVp8 -> "CaVp8"
      [] path = PathRigidModel -> "RigidModel"
      [] OTHER -> "Text"

\* Whether the bytes an OnDisk body points at can be read: the file is there
\* and holds a body of that size at that place.
Readable(e) ==
    /\ e.file \in PackFilePaths
    /\ files[e.file].exists
    /\ e.raw.data.position <= Len(files[e.file].packed_files)
    /\ Len(files[e.file].packed_files[e.raw.data.position].data) = e.raw.data.size

DiskBytes(e) == files[e.file].packed_files[e.raw.data.position].data

\* The decoded read of the raw body that keeps what it read
\* (get_data_and_keep_it): the result and the body it leaves.
ReadDecoded(e) ==
    IF IsOnMemory(e.raw) THEN KeepOnMemory(e.raw.data)
    ELSE IF Readable(e) THEN KeepOnDisk(e.raw, DiskBytes(e))
    ELSE [status |-> "Io", val |-> <<>>, body |-> e.raw.data]

\* The decoded read of the raw body that stores nothing (get_data).
get_raw_data(e) ==
    IF IsOnMemory(e.raw) THEN GetDataOnMemory(e.raw.data)
    ELSE IF Readable(e) THEN GetDataOnDisk(e.raw, DiskBytes(e))
    ELSE [status |-> "Io", val |-> <<>>]

\* The table codec: a version marker, then the rows.  Decoding needs the
\* schema and the definition of that version.  The other types are taken
\* as they are.
Decode(type, data, schema) ==
    IF type \notin {"DB", "Loc"} THEN Ok(Decoded(type, 0, data, TRUE))
    ELSE IF ~schema.loaded THEN Err("SchemaNotFound", NotDecoded)
    ELSE IF data = <<>> THEN Err("Truncated", NotDecoded)
    ELSE IF Head(data) \notin (IF type = "DB" THEN schema.db ELSE schema.loc)
         THEN Err("UnknownVersion", NotDecoded)
    ELSE Ok(Decoded(type, Head(data), Tail(data), TRUE))

\* Encoding fails on a value that does not fit its definition.
Encode(decoded) ==
    IF ~decoded.well_formed THEN Err("Encode", <<>>)
    ELSE IF decoded.kind \notin {"DB", "Loc"} THEN Ok(decoded.rows)
    ELSE Ok(<<decoded.version>> \o decoded.rows)

\* PackedFile::decode_return_ref: the cache if there is one, else the raw
\* body is read and decoded and the result cached.  The value is the entry
\* as the call leaves it.
decode_return_ref(e, schema) ==
    IF e.decoded.kind # "Unknown" THEN Ok(e)
    ELSE LET r == ReadDecoded(e)
             kept == [e EXCEPT !.raw.data = r.body,
                               !.file = IF r.body.tag = "OnDisk" THEN e.file ELSE ""]
             d == Decode(get_packed_file_type(e.raw.path), r.val, schema)
         IN  IF r.status # "Ok" THEN Err(r.status, kept)
             ELSE IF d.ok THEN Ok([kept EXCEPT !.decoded = d.value])
             ELSE Err(d.error, kept)

\* PackedFile::encode_and_clean_cache: the cache is encoded into the raw
\* body and dropped; if the encoding fails the entry is left as it was.
encode_and_clean_cache(e) ==
    IF e.decoded.kind = "Unknown" THEN Ok(e)
    ELSE LET r == Encode(e.decoded)
         IN  IF r.ok
             THEN Ok([e EXCEPT !.raw.data = SetDataBody(r.value), !.file = "",
                               !.decoded = NotDecoded])
             ELSE Err(r.error, e)

\* PackedFile::new_from_decoded
new_from_decoded(decoded, path) ==
    Entry(read_from_vec(path, 0, FALSE, <<>>), "", decoded)

\* ------------------------------------- the loop: changing a PackFile (lib)
\* PackFile::add_packed_file: fails if the path is taken and it may not
\* overwrite; otherwise the entry replaces the one at its path or is added.
add_packed_file(pack, e, overwrite) ==
    IF IndexIn(pack.packed_files, e.raw.path) # 0 /\ ~overwrite
    THEN Err("PackedFileAlreadyExists", pack)
    ELSE Ok([pack EXCEPT !.packed_files = Put(@, e)])

\* A file outside the PackFile: whether it can be read, and what it holds.
Source(readable, data) == [readable |-> readable, data |-> data]

\* PackFile::add_from_file
add_from_file(pack, source, destination_path, overwrite) ==
    IF ~source.readable THEN Err("IOReadFile", pack)
    ELSE add_packed_file(pack,
                         Entry(read_from_vec(destination_path, 0, FALSE, source.data),
                               "", NotDecoded),
                         overwrite)

\* PackFile::add_from_folders: the files found under the folders, each with
\* the path it gets, added one after the other until one fails.
RECURSIVE add_from_folders(_, _, _)
add_from_folders(pack, found, overwrite) ==
    IF found = <<>> THEN Ok(pack)
    ELSE LET r == add_from_file(pack, Head(found).source, Head(found).path, overwrite)
         IN  IF r.ok THEN add_from_folders(r.value, Tail(found), overwrite) ELSE r

\* PackFile::add_from_packfile: copies of the entries of `source` at `paths`.
RECURSIVE add_from_packfile(_, _, _, _)
add_from_packfile(pack, source, paths, overwrite) ==
    IF paths = <<>> THEN Ok(pack)
    ELSE LET i == IndexIn(source.packed_files, Head(paths))
             r == add_packed_file(pack, source.packed_files[i], overwrite)
         IN  IF i = 0 THEN Err("PackedFileNotFound", pack)
             ELSE IF r.ok THEN add_from_packfile(r.value, source, Tail(paths), overwrite)
             ELSE r

\* PackFile::remove_packed_files_by_type: the entries at `paths` are removed.
remove_packed_files_by_type(pack, paths) ==
    LET keep == {i \in Indices(pack) : pack.packed_files[i].raw.path \notin paths}
        Nth(n) == CHOOSE i \in keep : Cardinality({j \in keep : j <= i}) = n
    IN  [pack EXCEPT !.packed_files =
                        [n \in 1..Cardinality(keep) |-> pack.packed_files[Nth(n)]]]

\* One renaming: nothing happens if there is no entry at `old`, if the name
\* is not a new one, or if it is taken and it may not overwrite.
Rename(pack, old, new, overwrite) ==
    LET i == IndexIn(pack.packed_files, old)
        j == IndexIn(pack.packed_files, new)
        freed == remove_packed_files_by_type(pack, {new})
    IN  IF i = 0 \/ old = new \/ (j # 0 /\ ~overwrite) THEN pack
        ELSE [freed EXCEPT
                 !.packed_files[IndexIn(freed.packed_files, old)].raw.path = new]

\* PackFile::rename_packedfiles: the renamings, in the order given.
RECURSIVE rename_packedfiles(_, _, _)
rename_packedfiles(pack, renaming_data, overwrite) ==
    IF renaming_data = <<>> THEN pack
    ELSE rename_packedfiles(Rename(pack, Head(renaming_data)[1], Head(renaming_data)[2],
                                   overwrite),
                            Tail(renaming_data), overwrite)

\* PackFile::toggle_compression: the PackFile's default, for the next save.
toggle_compression(pack, state) == [pack EXCEPT !.compressed = state]

\* -------------------------------------------- the loop: PackFile::save (lib)
\* What save makes of one entry before anything is written: the decoded
\* cache is encoded, the body is brought into memory, and a body whose
\* flags are not what the PackFile asks for is decoded and stored anew.
Staged(e, compressed) ==
    LET c == encode_and_clean_cache(e)
        e1 == c.value
        loaded == IF IsOnMemory(e1.raw) THEN e1.raw.data
                  ELSE LoadedData(e1.raw, DiskBytes(e1))
        e2 == [e1 EXCEPT !.raw.data = loaded, !.file = ""]
        r == KeepOnMemory(loaded)
    IN  IF ~c.ok THEN Err(c.error, e)
        ELSE IF IsOnDisk(e1.raw) /\ ~Readable(e1) THEN Err("Io", e1)
        ELSE IF loaded.is_compressed = compressed /\ ~loaded.is_encrypted
             THEN Ok([e2 EXCEPT !.raw.is_compressed = compressed])
        ELSE IF r.status # "Ok" THEN Err(r.status, [e2 EXCEPT !.raw.data = r.body])
        ELSE Ok([e2 EXCEPT !.raw.is_compressed = compressed,
                           !.raw.data = IF compressed
                                        THEN OnMemory(compress_data(r.val), TRUE, FALSE)
                                        ELSE OnMemory(r.val, FALSE, FALSE)])

\* The entries from i on staged in order, up to the first that fails.
RECURSIVE StageFrom(_, _, _)
StageFrom(entries, i, compressed) ==
    IF i > Len(entries) THEN Ok(entries)
    ELSE LET r == Staged(entries[i], compressed)
             next == [entries EXCEPT ![i] = r.value]
         IN  IF r.ok THEN StageFrom(next, i + 1, compressed) ELSE Err(r.error, next)

\* The PackFile as written: header, index and bodies, in index order.
Written(pack) ==
    Image(pack.pfh_version, pack.compressed,
          [i \in Indices(pack) |->
             Record(pack.packed_files[i].raw.path,
                    pack.packed_files[i].raw.data.is_compressed,
                    pack.packed_files[i].raw.data.data)])

\* PackFile::save(path): every entry is staged first; the destination is
\* written only if all of them could be.  `value` is the PackFile as the
\* call leaves it, `disk` the files as it leaves them.
save(pack, path) ==
    LET destination == IF path = "" THEN pack.file_path ELSE path
        staged == StageFrom(pack.packed_files, 1, pack.compressed)
        saved == [pack EXCEPT !.file_path = destination, !.packed_files = staged.value]
    IN  IF destination \notin PackFilePaths
        THEN [ok |-> FALSE, error |-> "PackFileIsNotAFile", value |-> pack, disk |-> files]
        ELSE IF ~staged.ok
        THEN [ok |-> FALSE, error |-> staged.error,
              value |-> [pack EXCEPT !.packed_files = staged.value], disk |-> files]
        ELSE [ok |-> TRUE, error |-> "", value |-> saved,
              disk |-> [files EXCEPT ![destination] = Written(saved)]]

\* ------------------------------------------- the loop: dependencies (lib)
\* Schema::load(..).ok(): the schema of the game, None if it cannot be read.
Schema_load(game, readable) == IF readable THEN SchemaOf(game) ELSE NoSchema

\* PackFile::load_all_dependency_packfiles: the entries of the dependency
\* PackFiles that are there, read into one list in dependency order.
RECURSIVE load_all_dependency_packfiles(_)
load_all_dependency_packfiles(paths) ==
    IF paths = <<>> THEN <<>>
    ELSE (IF files[Head(paths)].exists THEN ReadEntries(<<>>, Head(paths), 1, FALSE)
          ELSE <<>>) \o load_all_dependency_packfiles(Tail(paths))

\* DB::read_pak_file: the tables of the game's Pak file.
read_pak_file(game) ==
    IF game = "warhammer_2" THEN <<Decoded("DB", 0, <<0, 1>>, TRUE)>> ELSE <<>>

\* ------------------------------------- the loop: commands and responses
\* Response::<kind>(..), with what the response carries.
Response(kind) ==
    [kind |-> kind, error |-> "", info |-> PackFileInfo(PackFile_new),
     table |-> NotDecoded, paths |-> <<>>, reference_data |-> <<>>]

Success == Response("Success")

Error(error) == [Response("Error") EXCEPT !.error = error]

PackFileInfoResponse(pack) == [Response("PackFileInfo") EXCEPT !.info = PackFileInfo(pack)]

\* let response = CENTRAL_COMMAND.recv_message_rust(), line 70, seen from the
\* arm of the match that handles `cmd`: cmd is the command the loop has
\* received (if it has not received one yet, it waits until cmd comes in),
\* and with the end of the arm the loop is back at the recv.
Received(cmd) ==
    /\ alive
    /\ handling => command = cmd
    /\ command' = cmd
    /\ handling' = FALSE
    /\ inbox' = inbox
    /\ alive' = alive

\* Mutant of Recv: a command is taken from the channel while the arm of the
\* one before is still at work.
Recv_Early ==
    /\ inbox # <<>>
    /\ command' = Head(inbox)
    /\ inbox' = Tail(inbox)
    /\ handling' = TRUE
    /\ responses' = <<>>
    /\ UNCHANGED <<pack_file_decoded, pack_file_decoded_extra, statics, files, alive, entry>>

\* The recv of line 70 on its own: the loop, at the top of an iteration,
\* takes the oldest command of the channel; nothing has been sent for it yet.
Recv ==
    /\ alive
    /\ ~handling
    /\ inbox # <<>>
    /\ command' = Head(inbox)
    /\ inbox' = Tail(inbox)
    /\ handling' = TRUE
    /\ responses' = <<>>
    /\ UNCHANGED <<pack_file_decoded, pack_file_decoded_extra, statics, files, alive, entry>>

\* The UI thread sends a command; the channel keeps the commands in the
\* order they were sent.
Send(cmd) ==
    /\ Len(inbox) < MaxInbox
    /\ inbox' = Append(inbox, cmd)
    /\ UNCHANGED <<pack_file_decoded, pack_file_decoded_extra, statics, files, handling,
                   alive, command, responses, entry>>

\* CENTRAL_COMMAND.send_message_rust(..): what the handler sends, in order.
Sends(sent) == responses' = sent

\* --------------------------------------------------- the loop: its handlers
\* Mutant of ResetPackFile: the game selected is reset with the PackFile.
ResetPackFile_AndGame ==
    /\ Received(Command("ResetPackFile"))
    /\ pack_file_decoded' = PackFile_new
    /\ GAME_SELECTED' = "warhammer_2"
    /\ Sends(<<>>)
    /\ UNCHANGED <<pack_file_decoded_extra, SETTINGS, SCHEMA, DEPENDENCY_DATABASE,
                   FAKE_DEPENDENCY_DATABASE, files, entry>>

\* Command::ResetPackFile, line 74.
ResetPackFile ==
    /\ Received(Command("ResetPackFile"))
    /\ pack_file_decoded' = PackFile_new
    /\ Sends(<<>>)
    /\ UNCHANGED <<pack_file_decoded_extra, statics, files, entry>>

\* Command::NewPackFile, lines 80-84.
NewPackFile ==
    /\ Received(Command("NewPackFile"))
    /\ pack_file_decoded' = new_with_name("unknown.pack", PfhVersionOf(GAME_SELECTED))
    /\ Sends(<<>>)
    /\ UNCHANGED <<pack_file_decoded_extra, statics, files, entry>>

\* Mutant of OpenPackFiles: the PackFile opened is reported but not kept.
OpenPackFiles_NotKept(paths) ==
    LET r == open_packfiles(paths, SETTINGS.use_lazy_loading)
    IN  /\ Received([Command("OpenPackFiles") EXCEPT !.files = paths])
        /\ Sends(<<IF r.ok THEN PackFileInfoResponse(r.value) ELSE Error(r.error)>>)
        /\ UNCHANGED <<pack_file_decoded, pack_file_decoded_extra, statics, files, entry>>

\* Command::OpenPackFiles, lines 87-95.
OpenPackFiles(paths) ==
    LET r == open_packfiles(paths, SETTINGS.use_lazy_loading)
    IN  /\ Received([Command("OpenPackFiles") EXCEPT !.files = paths])
        /\ IF r.ok
           THEN /\ pack_file_decoded' = r.value
                /\ Sends(<<PackFileInfoResponse(pack_file_decoded')>>)
           ELSE /\ Sends(<<Error(r.error)>>)
                /\ UNCHANGED pack_file_decoded
        /\ UNCHANGED <<pack_file_decoded_extra, statics, files, entry>>

\* Command::OpenPackFileExtra, lines 98-106.
OpenPackFileExtra(path) ==
    LET r == open_packfiles(<<path>>, TRUE)
    IN  /\ Received([Command("OpenPackFileExtra") EXCEPT !.file = path])
        /\ IF r.ok
           THEN /\ pack_file_decoded_extra' = r.value
                /\ Sends(<<PackFileInfoResponse(pack_file_decoded_extra')>>)
           ELSE /\ Sends(<<Error(r.error)>>)
                /\ UNCHANGED pack_file_decoded_extra
        /\ UNCHANGED <<pack_file_decoded, statics, files, entry>>

\* Command::LoadAllCAPackFiles, lines 109-117.
LoadAllCAPackFiles ==
    LET r == open_all_ca_packfiles
    IN  /\ Received(Command("LoadAllCAPackFiles"))
        /\ IF r.ok
           THEN /\ pack_file_decoded' = r.value
                /\ Sends(<<PackFileInfoResponse(pack_file_decoded')>>)
           ELSE /\ Sends(<<Error(r.error)>>)
                /\ UNCHANGED pack_file_decoded
        /\ UNCHANGED <<pack_file_decoded_extra, statics, files, entry>>

\* Mutant of SavePackFileAnswer: a failed save is answered like a good one.
SavePackFileAnswer_AlwaysInfo(r) == PackFileInfoResponse(r.value)

\* Lines 121-124 and 129-132: what is sent for the result of save.
SavePackFileAnswer(r) ==
    IF r.ok THEN PackFileInfoResponse(r.value) ELSE Error("SavePackFileGeneric")

\* Command::SavePackFile, lines 120-125.
SavePackFile ==
    LET r == save(pack_file_decoded, "")
    IN  /\ Received(Command("SavePackFile"))
        /\ pack_file_decoded' = r.value
        /\ files' = r.disk
        /\ Sends(<<SavePackFileAnswer(r)>>)
        /\ UNCHANGED <<pack_file_decoded_extra, statics, entry>>

\* Command::SavePackFileAs, lines 128-133.
SavePackFileAs(path) ==
    LET r == save(pack_file_decoded, path)
    IN  /\ Received([Command("SavePackFileAs") EXCEPT !.file = path])
        /\ pack_file_decoded' = r.value
        /\ files' = r.disk
        /\ Sends(<<SavePackFileAnswer(r)>>)
        /\ UNCHANGED <<pack_file_decoded_extra, statics, entry>>

\* Command::SetSettings, lines 136-142: the settings are replaced, then
\* written to their file; `saved` is whether that write went through.
SetSettings(settings, saved) ==
    /\ Received([Command("SetSettings") EXCEPT !.settings = settings])
    /\ SETTINGS' = settings
    /\ Sends(<<IF saved THEN Success ELSE Error("IOGeneric")>>)
    /\ UNCHANGED <<pack_file_decoded, pack_file_decoded_extra, GAME_SELECTED, SCHEMA,
                   DEPENDENCY_DATABASE, FAKE_DEPENDENCY_DATABASE, files, entry>>

\* Command::ChangeDataIsCompressed, line 291.
ChangeDataIsCompressed(state) ==
    /\ Received([Command("ChangeDataIsCompressed") EXCEPT !.state = state])
    /\ pack_file_decoded' = toggle_compression(pack_file_decoded, state)
    /\ Sends(<<>>)
    /\ UNCHANGED <<pack_file_decoded_extra, statics, files, entry>>

\* Lines 319-347: the value a new PackedFile starts from, or the error of
\* the schema lookup (the table's versions, then the version asked for).
NewDecoded(kind, version, schema) ==
    CASE kind = "DB" ->
           IF schema.db = {} THEN Err("SchemaVersionedFileNotFound", NotDecoded)
           ELSE IF version \notin schema.db THEN Err("SchemaDefinitionNotFound", NotDecoded)
           ELSE Ok(Decoded("DB", version, <<>>, TRUE))
      [] kind = "Loc" ->
           IF schema.loc = {} THEN Err("SchemaDefinitionNotFound", NotDecoded)
           ELSE Ok(Decoded("Loc", CHOOSE v \in schema.loc : \A w \in schema.loc : w <= v,
                           <<>>, TRUE))
      [] OTHER -> Ok(Decoded("Text", 0, <<>>, TRUE))

\* Mutant of NewPackedFileAdded: the new entry may overwrite.
NewPackedFileAdded_Overwrites(pack, decoded, path) ==
    add_packed_file(pack, new_from_decoded(decoded, path), TRUE)

\* Lines 348-349: the new entry is added, never over another.
NewPackedFileAdded(pack, decoded, path) ==
    add_packed_file(pack, new_from_decoded(decoded, path), FALSE)

\* Mutant of NewPackedFile: a text, which needs no definition, is created
\* without a schema too.
NewPackedFile_TextWithoutSchema(path, kind, version) ==
    LET d == NewDecoded(kind, version, SCHEMA)
        r == NewPackedFileAdded(pack_file_decoded, d.value, path)
    IN  /\ Received([Command("NewPackedFile") EXCEPT
                        !.path = path, !.decoded = Decoded(kind, version, <<>>, TRUE)])
        /\ IF ~SCHEMA.loaded /\ kind # "Text"
           THEN Sends(<<Error("SchemaNotFound")>>) /\ UNCHANGED pack_file_decoded
           ELSE IF ~d.ok
           THEN Sends(<<Error(d.error)>>) /\ UNCHANGED pack_file_decoded
           ELSE /\ pack_file_decoded' = r.value
                /\ Sends(<<IF r.ok THEN Success ELSE Error(r.error)>>)
        /\ UNCHANGED <<pack_file_decoded_extra, statics, files, entry>>

\* Command::NewPackedFile, lines 317-354.
NewPackedFile(path, kind, version) ==
    LET d == NewDecoded(kind, version, SCHEMA)
        r == NewPackedFileAdded(pack_file_decoded, d.value, path)
    IN  /\ Received([Command("NewPackedFile") EXCEPT
                        !.path = path, !.decoded = Decoded(kind, version, <<>>, TRUE)])
        /\ IF ~SCHEMA.loaded
           THEN Sends(<<Error("SchemaNotFound")>>) /\ UNCHANGED pack_file_decoded
           ELSE IF ~d.ok
           THEN Sends(<<Error(d.error)>>) /\ UNCHANGED pack_file_decoded
           ELSE /\ pack_file_decoded' = r.value
                /\ Sends(<<IF r.ok THEN Success ELSE Error(r.error)>>)
        /\ UNCHANGED <<pack_file_decoded_extra, statics, files, entry>>

\* Mutant of AddEach: a pair that fails is skipped and the ones after it
\* are added; the error is that of the last failure.
RECURSIVE AddEach_Continues(_, _)
AddEach_Continues(pack, pairs) ==
    IF pairs = <<>> THEN Ok(pack)
    ELSE LET r == add_from_file(pack, Head(pairs).source, Head(pairs).path, TRUE)
             rest == AddEach_Continues(r.value, Tail(pairs))
         IN  IF r.ok \/ ~rest.ok THEN rest ELSE Err(r.error, rest.value)

\* Lines 359-365: the pairs are added in order, each over whatever is at its
\* path, up to the first that fails.
RECURSIVE AddEach(_, _)
AddEach(pack, pairs) ==
    IF pairs = <<>> THEN Ok(pack)
    ELSE LET r == add_from_file(pack, Head(pairs).source, Head(pairs).path, TRUE)
         IN  IF r.ok THEN AddEach(r.value, Tail(pairs)) ELSE r

\* Mutant of AddPackedFiles: the success is sent whether the loop broke or
\* not.
AddPackedFiles_NoBroke(pairs) ==
    LET r == AddEach(pack_file_decoded, pairs)
    IN  /\ Received([Command("AddPackedFiles") EXCEPT
                        !.sources = [i \in 1..Len(pairs) |-> pairs[i].source],
                        !.paths = [i \in 1..Len(pairs) |-> pairs[i].path]])
        /\ pack_file_decoded' = r.value
        /\ Sends(IF r.ok THEN <<Success>> ELSE <<Error(r.error), Success>>)
        /\ UNCHANGED <<pack_file_decoded_extra, statics, files, entry>>

\* Command::AddPackedFiles, lines 357-371.
AddPackedFiles(pairs) ==
    LET r == AddEach(pack_file_decoded, pairs)
    IN  /\ Received([Command("AddPackedFiles") EXCEPT
                        !.sources = [i \in 1..Len(pairs) |-> pairs[i].source],
                        !.paths = [i \in 1..Len(pairs) |-> pairs[i].path]])
        /\ pack_file_decoded' = r.value
        /\ Sends(<<IF r.ok THEN Success ELSE Error(r.error)>>)
        /\ UNCHANGED <<pack_file_decoded_extra, statics, files, entry>>

\* Command::AddPackedFilesFromFolder, lines 374-380.
AddPackedFilesFromFolder(found) ==
    LET r == add_from_folders(pack_file_decoded, found, TRUE)
        paths == [i \in 1..Len(found) |-> found[i].path]
    IN  /\ Received([Command("AddPackedFilesFromFolder") EXCEPT !.paths = paths])
        /\ pack_file_decoded' = r.value
        /\ Sends(<<IF r.ok THEN [Response("VecPathType") EXCEPT !.paths = paths]
                   ELSE Error(r.error)>>)
        /\ UNCHANGED <<pack_file_decoded_extra, statics, files, entry>>

\* Mutant of AddPackedFilesFromPackFile: the entries are moved, not copied.
AddPackedFilesFromPackFile_Moved(paths) ==
    LET r == add_from_packfile(pack_file_decoded, pack_file_decoded_extra, paths, TRUE)
    IN  /\ Received([Command("AddPackedFilesFromPackFile") EXCEPT !.paths = paths])
        /\ pack_file_decoded' = r.value
        /\ pack_file_decoded_extra' =
             IF r.ok
             THEN remove_packed_files_by_type(pack_file_decoded_extra,
                                              {paths[i] : i \in 1..Len(paths)})
             ELSE pack_file_decoded_extra
        /\ Sends(<<IF r.ok THEN [Response("VecPathType") EXCEPT !.paths = paths]
                   ELSE Error(r.error)>>)
        /\ UNCHANGED <<statics, files, entry>>

\* Command::GetPackFileExtraDataForTreeView, lines 164-172.
GetPackFileExtraDataForTreeView ==
    /\ Received(Command("GetPackFileExtraDataForTreeView"))
    /\ Sends(<<[Response("PackFileInfoVecPackedFileInfo") EXCEPT
                  !.info = PackFileInfo(pack_file_decoded_extra),
                  !.paths = [i \in Indices(pack_file_decoded_extra) |->
                               pack_file_decoded_extra.packed_files[i].raw.path]]>>)
    /\ UNCHANGED <<pack_file_decoded, pack_file_decoded_extra, statics, files, entry>>

\* Command::AddPackedFilesFromPackFile, lines 383-391.
AddPackedFilesFromPackFile(paths) ==
    LET r == add_from_packfile(pack_file_decoded, pack_file_decoded_extra, paths, TRUE)
    IN  /\ Received([Command("AddPackedFilesFromPackFile") EXCEPT !.paths = paths])
        /\ pack_file_decoded' = r.value
        /\ Sends(<<IF r.ok THEN [Response("VecPathType") EXCEPT !.paths = paths]
                   ELSE Error(r.error)>>)
        /\ UNCHANGED <<pack_file_decoded_extra, statics, files, entry>>

\* Lines 472-476: the response for what decode_return_ref handed back.
TableResponse(decoded) ==
    CASE decoded.kind = "DB" -> [Response("DBPackedFileInfo") EXCEPT !.table = decoded]
      [] decoded.kind = "Loc" -> [Response("LocPackedFileInfo") EXCEPT !.table = decoded]
      [] OTHER -> Response("Unknown")

\* Command::DecodePackedFileTable, lines 465-483.
DecodePackedFileTable(path) ==
    LET i == get_ref_mut_packed_file_by_path(pack_file_decoded, path)
        r == decode_return_ref(pack_file_decoded.packed_files[i], SCHEMA)
    IN  /\ Received([Command("DecodePackedFileTable") EXCEPT !.path = path])
        /\ IF i = 0
           THEN Sends(<<Error("PackedFileNotFound")>>) /\ UNCHANGED pack_file_decoded
           ELSE /\ pack_file_decoded' = [pack_file_decoded EXCEPT !.packed_files[i] = r.value]
                /\ Sends(<<IF r.ok THEN TableResponse(r.value.decoded) ELSE Error(r.error)>>)
        /\ UNCHANGED <<pack_file_decoded_extra, statics, files, entry>>

\* What the handlers that decode one type send: the value if it is of that
\* type, the error if the decoding failed, and nothing at all if the entry
\* decoded to another type (the "TODO: Put an error here" of lines 402, 420,
\* 454 and 496).
DecodedAs(type, kind, r) ==
    IF ~r.ok THEN <<Error(r.error)>>
    ELSE IF r.value.decoded.kind = type
         THEN <<[Response(kind) EXCEPT !.table = r.value.decoded]>>
         ELSE <<>>

\* The entry at `path` is looked up and decoded, and the decoded value kept
\* in its cache: what the four handlers below have in common.
DecodePackedFile(name, type, kind, path) ==
    LET i == get_ref_mut_packed_file_by_path(pack_file_decoded, path)
        r == decode_return_ref(pack_file_decoded.packed_files[i], SCHEMA)
    IN  /\ Received([Command(name) EXCEPT !.path = path])
        /\ IF i = 0
           THEN Sends(<<Error("PackedFileNotFound")>>) /\ UNCHANGED pack_file_decoded
           ELSE /\ pack_file_decoded' = [pack_file_decoded EXCEPT !.packed_files[i] = r.value]
                /\ Sends(DecodedAs(type, kind, r))
        /\ UNCHANGED <<pack_file_decoded_extra, statics, files, entry>>

\* Command::DecodePackedFileCaVp8, lines 394-410.
DecodePackedFileCaVp8(path) ==
    DecodePackedFile("DecodePackedFileCaVp8", "CaVp8", "CaVp8PackedFileInfo", path)

\* Command::DecodePackedFileImage, lines 412-428.
DecodePackedFileImage(path) ==
    DecodePackedFile("DecodePackedFileImage", "Image", "ImagePackedFileInfo", path)

\* Mutant of Note: an entry at the reserved path is served as the note.
Note_OfTheEntry(pack) ==
    LET i == IndexIn(pack.packed_files, NotesPath)
    IN  Decoded("Text", 0,
                IF i # 0 THEN get_raw_data(pack.packed_files[i]).val
                ELSE IF pack.notes.some THEN pack.notes.contents ELSE <<>>,
                TRUE)

\* Text::new() with the notes of the PackFile, if it has any.
Note(pack) ==
    Decoded("Text", 0, IF pack.notes.some THEN pack.notes.contents ELSE <<>>, TRUE)

\* Command::DecodePackedFileText, lines 430-463: the reserved path is
\* answered with the notes, any other as an entry.
DecodePackedFileText(path) ==
    IF path = NotesPath
    THEN /\ Received([Command("DecodePackedFileText") EXCEPT !.path = path])
         /\ Sends(<<[Response("Text") EXCEPT !.table = Note(pack_file_decoded)]>>)
         /\ UNCHANGED <<pack_file_decoded, pack_file_decoded_extra, statics, files, entry>>
    ELSE DecodePackedFile("DecodePackedFileText", "Text", "TextPackedFileInfo", path)

\* Command::DecodePackedFileRigidModel, lines 486-504.
DecodePackedFileRigidModel(path) ==
    DecodePackedFile("DecodePackedFileRigidModel", "RigidModel",
                     "RigidModelPackedFileInfo", path)

\* Command::SavePackedFileFromView, lines 506-517.
SavePackedFileFromView(path, decoded_packed_file) ==
    LET i == get_ref_mut_packed_file_by_path(pack_file_decoded, path)
    IN  /\ Received([Command("SavePackedFileFromView") EXCEPT
                        !.path = path, !.decoded = decoded_packed_file])
        /\ pack_file_decoded' =
             IF path = NotesPath
             THEN IF decoded_packed_file.kind = "Text"
                  THEN [pack_file_decoded EXCEPT
                          !.notes = IF decoded_packed_file.rows = <<>> THEN NoNotes
                                    ELSE SomeNotes(decoded_packed_file.rows)]
                  ELSE pack_file_decoded
             ELSE IF i # 0
                  THEN [pack_file_decoded EXCEPT !.packed_files[i].decoded = decoded_packed_file]
                  ELSE pack_file_decoded
        /\ Sends(<<Success>>)
        /\ UNCHANGED <<pack_file_decoded_extra, statics, files, entry>>

\* Command::DeletePackedFiles, lines 520-522.
DeletePackedFiles(paths) ==
    /\ Received([Command("DeletePackedFiles") EXCEPT !.paths = paths])
    /\ pack_file_decoded' =
         remove_packed_files_by_type(pack_file_decoded, {paths[i] : i \in 1..Len(paths)})
    /\ Sends(<<[Response("VecPathType") EXCEPT !.paths = paths]>>)
    /\ UNCHANGED <<pack_file_decoded_extra, statics, files, entry>>

\* Command::RenamePackedFiles, lines 533-535.
RenamePackedFiles(renaming_data) ==
    /\ Received([Command("RenamePackedFiles") EXCEPT
                    !.paths = [i \in 1..Len(renaming_data) |-> renaming_data[i][1]]])
    /\ pack_file_decoded' = rename_packedfiles(pack_file_decoded, renaming_data, FALSE)
    /\ Sends(<<[Response("VecPathTypeVecString") EXCEPT
                  !.paths = [i \in 1..Len(renaming_data) |-> renaming_data[i][2]]]>>)
    /\ UNCHANGED <<pack_file_decoded_extra, statics, files, entry>>

\* Lines 207 and 672: `let _ = x.encode_and_clean_cache();` on each of the
\* entries picked; what the call returns is dropped.
CleanEach(pack, picked) ==
    [pack EXCEPT !.packed_files =
        [i \in Indices(pack) |->
           IF i \in picked THEN encode_and_clean_cache(pack.packed_files[i]).value
           ELSE pack.packed_files[i]]]

\* Command::CleanCache, lines 670-673.
CleanCache(paths) ==
    /\ Received([Command("CleanCache") EXCEPT !.paths = paths])
    /\ pack_file_decoded' =
         CleanEach(pack_file_decoded,
                   {i \in Indices(pack_file_decoded) :
                      \E j \in 1..Len(paths) : pack_file_decoded.packed_files[i].raw.path = paths[j]})
    /\ Sends(<<>>)
    /\ UNCHANGED <<pack_file_decoded_extra, statics, files, entry>>

\* The entries whose path says they are DB tables
\* (get_ref_mut_packed_files_by_type(PackedFileType::DB, false)).
DBEntries(pack) ==
    {i \in Indices(pack) : get_packed_file_type(pack.packed_files[i].raw.path) = "DB"}

\* Mutant of WithGameVersion: the version is set on a PackFile without a
\* name too.
WithGameVersion_Nameless(pack, game) == [pack EXCEPT !.pfh_version = PfhVersionOf(game)]

\* Lines 220-222: the PackFile takes the version of the game if it has a name.
WithGameVersion(pack, game) ==
    IF pack.file_path # "" THEN [pack EXCEPT !.pfh_version = PfhVersionOf(game)] ELSE pack

\* Lines 227-243: with the setting on and a schema loaded, every DB entry is
\* decoded, which leaves the ones that decode with a cache.
CheckedForMissing(pack, schema) ==
    IF SETTINGS.check_for_missing_table_definitions /\ schema.loaded
    THEN [pack EXCEPT !.packed_files =
            [i \in Indices(pack) |->
               IF i \in DBEntries(pack) THEN decode_return_ref(pack.packed_files[i], schema).value
               ELSE pack.packed_files[i]]]
    ELSE pack

\* Command::SetGameSelected, lines 203-250.
SetGameSelected(game_selected, readable) ==
    LET purged == CleanEach(pack_file_decoded, DBEntries(pack_file_decoded))
    IN  /\ Received([Command("SetGameSelected") EXCEPT !.game = game_selected])
        /\ GAME_SELECTED' = game_selected
        /\ SCHEMA' = Schema_load(game_selected, readable)
        /\ Sends(<<Success>>)
        /\ DEPENDENCY_DATABASE' = load_all_dependency_packfiles(pack_file_decoded.pack_files)
        /\ FAKE_DEPENDENCY_DATABASE' = read_pak_file(game_selected)
        /\ pack_file_decoded' =
             CheckedForMissing(WithGameVersion(purged, game_selected), SCHEMA')
        /\ UNCHANGED <<pack_file_decoded_extra, SETTINGS, files, entry>>

\* panic!() or unimplemented!() in the arm of `cmd`: the thread of the loop
\* unwinds out of background_loop; nothing more is received or sent.
Panics(cmd) ==
    /\ alive
    /\ handling => command = cmd
    /\ command' = cmd
    /\ handling' = FALSE
    /\ alive' = FALSE
    /\ Sends(<<>>)
    /\ UNCHANGED <<pack_file_decoded, pack_file_decoded_extra, statics, files, inbox, entry>>

\* packed_file.get_decoded() of the entry at `path`, if there is one.
get_decoded(pack, path) ==
    LET i == get_ref_mut_packed_file_by_path(pack, path)
    IN  IF i = 0 THEN NotDecoded ELSE pack.packed_files[i].decoded

\* Mutant of ExportTSV: what is not a table is answered with an error.
ExportTSV_ErrorForOthers(internal_path, written) ==
    LET cmd == [Command("ExportTSV") EXCEPT !.path = internal_path]
        i == get_ref_mut_packed_file_by_path(pack_file_decoded, internal_path)
    IN  /\ Received(cmd)
        /\ Sends(<<IF i = 0 THEN Error("PackedFileNotFound")
                   ELSE IF get_decoded(pack_file_decoded, internal_path).kind \in {"DB", "Loc"}
                           /\ written
                        THEN Success
                        ELSE Error("IOGeneric")>>)
        /\ UNCHANGED <<pack_file_decoded, pack_file_decoded_extra, statics, files, entry>>

\* Command::ExportTSV, lines 686-704: the decoded cache of the entry is
\* written out if it is a table (`written`: whether the file could be
\* written); for any other cache the arm is `_ => unimplemented!()`.
ExportTSV(internal_path, written) ==
    LET cmd == [Command("ExportTSV") EXCEPT !.path = internal_path]
        i == get_ref_mut_packed_file_by_path(pack_file_decoded, internal_path)
    IN  IF i # 0 /\ get_decoded(pack_file_decoded, internal_path).kind \notin {"DB", "Loc"}
        THEN Panics(cmd)
        ELSE /\ Received(cmd)
             /\ Sends(<<IF i = 0 THEN Error("PackedFileNotFound")
                        ELSE IF written THEN Success ELSE Error("IOGeneric")>>)
             /\ UNCHANGED <<pack_file_decoded, pack_file_decoded_extra, statics, files, entry>>

\* Command::ImportTSV, lines 707-727: the TSV is read with the definition
\* of the entry's decoded table and sent back (`parsed`: whether it could be
\* read); the entry itself is not touched. Any other cache: unimplemented!().
ImportTSV(internal_path, parsed) ==
    LET cmd == [Command("ImportTSV") EXCEPT !.path = internal_path]
        i == get_ref_mut_packed_file_by_path(pack_file_decoded, internal_path)
        d == get_decoded(pack_file_decoded, internal_path)
    IN  IF i # 0 /\ d.kind \notin {"DB", "Loc"}
        THEN Panics(cmd)
        ELSE /\ Received(cmd)
             /\ Sends(<<IF i = 0 THEN Error("PackedFileNotFound")
                        ELSE IF parsed
                             THEN [Response("TableType") EXCEPT
                                     !.table = Decoded(d.kind, d.version, <<>>, TRUE)]
                             ELSE Error("ImportTSVWrongTypeTable")>>)
             /\ UNCHANGED <<pack_file_decoded, pack_file_decoded_extra, statics, files, entry>>

\* Command::CheckUpdates, line 885: it belongs to the network thread.
CheckUpdates == Panics(Command("CheckUpdates"))

\* Command::CheckSchemaUpdates, line 885.
CheckSchemaUpdates == Panics(Command("CheckSchemaUpdates"))

\* Command::SetGameSelected as the loop runs it when it shares the channel
\* with a sender, in two steps. Lines 204-211: the game is written, the
\* caches of the tables purged, the schema loaded, and Success sent, which
\* unlocks the UI; the arm is not over.
SetGameSelectedAnswer(game_selected, readable) ==
    /\ alive
    /\ handling
    /\ command = [Command("SetGameSelected") EXCEPT !.game = game_selected]
    /\ responses = <<>>
    /\ GAME_SELECTED' = game_selected
    /\ pack_file_decoded' = CleanEach(pack_file_decoded, DBEntries(pack_file_decoded))
    /\ SCHEMA' = Schema_load(game_selected, readable)
    /\ Sends(<<Success>>)
    /\ UNCHANGED <<pack_file_decoded_extra, SETTINGS, DEPENDENCY_DATABASE,
                   FAKE_DEPENDENCY_DATABASE, files, inbox, handling, alive, command, entry>>

\* Mutant of SetGameSelectedReload: the arm ends with the answer, and the
\* dependencies and the version are left as they were.
SetGameSelectedReload_Skipped ==
    /\ alive
    /\ handling
    /\ command.name = "SetGameSelected"
    /\ responses = <<Success>>
    /\ handling' = FALSE
    /\ UNCHANGED <<pack_file_decoded, pack_file_decoded_extra, statics, files, inbox,
                   alive, command, responses, entry>>

\* Lines 214-250, the rest of the arm: the dependencies and the fake
\* dependencies are reloaded, the PackFile takes the version of the game,
\* the tables are checked if the setting asks for it; then the loop is back
\* at the recv.
SetGameSelectedReload ==
    /\ alive
    /\ handling
    /\ command.name = "SetGameSelected"
    /\ responses = <<Success>>
    /\ DEPENDENCY_DATABASE' = load_all_dependency_packfiles(pack_file_decoded.pack_files)
    /\ FAKE_DEPENDENCY_DATABASE' = read_pak_file(GAME_SELECTED)
    /\ pack_file_decoded' =
         CheckedForMissing(WithGameVersion(pack_file_decoded, GAME_SELECTED), SCHEMA)
    /\ handling' = FALSE
    /\ UNCHANGED <<pack_file_decoded_extra, SETTINGS, GAME_SELECTED, SCHEMA, files, inbox,
                   alive, command, responses, entry>>

\* DB::get_dependency_data: the reference data of a definition, out of the
\* tables of the PackFile, the dependencies and the fake dependencies, as
\* the schema reads them.
get_dependency_data(pack, schema, dep_db, fake_dep_db) ==
    <<schema.db, pack.pfh_version, dep_db, fake_dep_db>>

\* Command::GetReferenceDataFromDefinition, lines 618-635.
GetReferenceDataFromDefinition ==
    /\ Received(Command("GetReferenceDataFromDefinition"))
    /\ Sends(<<[Response("BTreeMapI32VecStringString") EXCEPT
                  !.reference_data =
                     IF SCHEMA.loaded
                     THEN get_dependency_data(pack_file_decoded, SCHEMA, DEPENDENCY_DATABASE,
                                              FAKE_DEPENDENCY_DATABASE)
                     ELSE <<>>]>>)
    /\ UNCHANGED <<pack_file_decoded, pack_file_decoded_extra, statics, files, entry>>

\* The schemas the schema editor may send: the definitions of the tables
\* with one version more or one less.
Schemas == {[loaded |-> TRUE, db |-> db, loc |-> {0}] : db \in {{0}, {1}, {0, 1}}}

\* Mutant of SaveSchema: the schema sent becomes the active one whether or
\* not it could be written.
SaveSchema_Regardless(schema, saved) ==
    /\ Received([Command("SaveSchema") EXCEPT !.schema = schema])
    /\ SCHEMA' = schema
    /\ Sends(<<IF saved THEN Success ELSE Error("IOGeneric")>>)
    /\ UNCHANGED <<pack_file_decoded, pack_file_decoded_extra, SETTINGS, GAME_SELECTED,
                   DEPENDENCY_DATABASE, FAKE_DEPENDENCY_DATABASE, files, entry>>

\* Command::SaveSchema, lines 659-667: the schema is written to the schema
\* file of the game (`saved`: whether it could be); only then does it
\* replace the active one.
SaveSchema(schema, saved) ==
    /\ Received([Command("SaveSchema") EXCEPT !.schema = schema])
    /\ IF saved
       THEN SCHEMA' = schema /\ Sends(<<Success>>)
       ELSE SCHEMA' = SCHEMA /\ Sends(<<Error("IOGeneric")>>)
    /\ UNCHANGED <<pack_file_decoded, pack_file_decoded_extra, SETTINGS, GAME_SELECTED,
                   DEPENDENCY_DATABASE, FAKE_DEPENDENCY_DATABASE, files, entry>>

\* ------------------------------------------ the loop: its specifications
\* No PackedFile is being worked on outside the loop.
EntryAtRest ==
    /\ disk = <<>>
    /\ filePos = 0
    /\ packed_files = <<>>
    /\ pc = [t \in Threads |-> "idle"]
    /\ call = [t \in Threads |-> NoCall]
    /\ ret = [t \in Threads |-> NoRet]
    /\ opened = <<>>
    /\ firstRead = <<>>
    /\ diskRead = <<>>
    /\ lastSet = <<>>

\* The settings the user may have left.
AnySettings ==
    [use_lazy_loading : BOOLEAN, check_for_missing_table_definitions : BOOLEAN]

\* The loop when it starts: two empty PackFiles (lines 60-61), the statics as
\* lib.rs creates them, settings among `settings`, and a disk among `disks`.
InitLoop(disks, settings) ==
    /\ EntryAtRest
    /\ pack_file_decoded = PackFile_new
    /\ pack_file_decoded_extra = PackFile_new
    /\ SETTINGS \in settings
    /\ GAME_SELECTED = "warhammer_2"
    /\ SCHEMA = NoSchema
    /\ DEPENDENCY_DATABASE = <<>>
    /\ FAKE_DEPENDENCY_DATABASE = <<>>
    /\ files \in disks
    /\ inbox = <<>>
    /\ handling = FALSE
    /\ alive = TRUE
    /\ command = NoCommand
    /\ responses = <<>>

\* Opening, creating and dropping PackFiles.
NextOpen ==
    \/ ResetPackFile
    \/ NewPackFile
    \/ \E paths \in PathLists : OpenPackFiles(paths)
    \/ \E path \in PackFilePaths : OpenPackFileExtra(path)
    \/ LoadAllCAPackFiles

SpecOpen == InitLoop(Disks(Catalogue \cup {NoFile}), AnySettings) /\ [][NextOpen]_vars

\* The values a view may hand back for an entry: a table or a text, one
\* that fits its definition or one that does not.
ViewValues ==
    {Decoded(kind, 0, rows, well_formed) :
        kind \in {"DB", "Loc", "Text"}, rows \in BytesUpTo(MaxNewLen - 1),
        well_formed \in BOOLEAN}

\* The lists of entry paths a command may carry.
PathBatches == {<<p>> : p \in Paths} \cup {<<PathDB, PathText>>, <<PathLoc, PathDB>>}

\* Looking at entries and editing them in views.
NextView ==
    \/ \E f \in PackFilePaths : OpenPackFiles(<<f>>)
    \/ \E game \in Games, readable \in BOOLEAN : SetGameSelected(game, readable)
    \/ \E path \in Paths \cup {NotesPath} : DecodePackedFileTable(path)
    \/ \E path \in Paths \cup {NotesPath}, decoded \in ViewValues :
          SavePackedFileFromView(path, decoded)
    \/ \E paths \in PathBatches : CleanCache(paths)

SpecView ==
    InitLoop({WorkDisk}, {s \in AnySettings : s.use_lazy_loading /\ ~s.check_for_missing_table_definitions})
    /\ [][NextView]_vars


\* ------------------------------------------------------------------ claims
\* The bytes the index gives entry e: [position, position + size) of the file.
OwnBytes(e) == Slice(opened[e].position, opened[e].size)

\* C1 (as claimed): every read of an OnDisk entry that got its bytes got the
\* bytes at its own entry's [offset, offset + length), whatever the other
\* caller did to the shared handle in the meantime.
C1_ReadsOwnBytes ==
    \A t \in Threads :
        (ret[t].from = "OnDisk" /\ ret[t].status # "Io")
            => ret[t].raw = OwnBytes(ret[t].ent)

ReadOps == {"get_data", "get_data_and_keep_it"}

\* The value and status a completed call returned.
Outcome(r) == [status |-> r.status, val |-> r.val]

\* Caller t completes a call in this step.
Completes(t) == ret'[t] # ret[t]

\* The bytes a read of e starts from, and the transforms it is flagged with.
RawOf(e) ==
    IF IsOnDisk(packed_files[e]) THEN OwnBytes(e) ELSE packed_files[e].data.data

EncryptedNow(e) ==
    IF IsOnDisk(packed_files[e]) THEN packed_files[e].is_encrypted # NoVersion
    ELSE packed_files[e].data.is_encrypted

CompressedNow(e) ==
    IF IsOnDisk(packed_files[e]) THEN packed_files[e].is_compressed
    ELSE packed_files[e].data.is_compressed

\* De-obfuscation first, decompression second.
DecryptThenDecompress(data, enc, comp) ==
    LET d == IF enc THEN decrypt_packed_file(data) ELSE data
    IN  IF ~comp THEN [status |-> "Ok", val |-> d]
        ELSE IF decompress_data(d).ok
             THEN [status |-> "Ok", val |-> decompress_data(d).data]
             ELSE [status |-> "Decompress", val |-> <<>>]

\* Decompression first, de-obfuscation second.
DecompressThenDecrypt(data, enc, comp) ==
    LET d == IF comp THEN decompress_data(data) ELSE [ok |-> TRUE, data |-> data]
    IN  IF ~d.ok THEN [status |-> "Decompress", val |-> <<>>]
        ELSE [status |-> "Ok",
              val |-> IF enc THEN decrypt_packed_file(d.data) ELSE d.data]

\* ---- C2
\* After a successful call of `ops` that found the entry on disk, the body
\* is in memory.
MaterializedBy(ops) ==
    \A t \in Threads :
        (ret[t].op \in ops /\ ret[t].from = "OnDisk" /\ ret[t].status = "Ok")
            => IsOnMemory(packed_files[ret[t].ent])

\* Once in memory, in memory after every step.
StaysOnMemory ==
    \A e \in Ents : IsOnMemory(packed_files[e]) => IsOnMemory(packed_files'[e])

\* C2 (as claimed): the first successful read of an OnDisk entry, get_data
\* included, leaves its body OnMemory, and an OnMemory body never becomes
\* OnDisk again.
C2_FirstReadMaterializes ==
    /\ [] MaterializedBy({"load_data", "get_data", "get_data_and_keep_it"})
    /\ [][StaysOnMemory]_vars

\* C2 (amended): a successful load_data or get_data_and_keep_it of an OnDisk
\* entry leaves its body OnMemory, a get_data of an OnDisk entry leaves it
\* OnDisk, and an OnMemory body never becomes OnDisk again under load_data,
\* get_data, get_data_and_keep_it, get_data_and_info_from_memory, set_data or
\* a write of the entry's public fields.
C2_StoringReadMaterializes ==
    /\ [] MaterializedBy({"load_data", "get_data_and_keep_it"})
    /\ [] (\A t \in Threads :
             (ret[t].op = "get_data" /\ ret[t].from = "OnDisk")
                 => IsOnDisk(packed_files[ret[t].ent]))
    /\ [][StaysOnMemory]_vars

\* C2 witness: get_data_and_keep_it has just materialized an OnDisk entry.
C2_Witness ==
    /\ ret[MainThread].op = "get_data_and_keep_it"
    /\ ret[MainThread].from = "OnDisk"
    /\ ret[MainThread].status = "Ok"
    /\ IsOnMemory(packed_files[1])
    /\ opened[1].onDisk

\* ---- C3
\* C3: a read made right after load_data brought the entry into memory
\* returns what the read made while the entry was still on disk returned,
\* the same bytes or the same decompression error, for every combination of
\* the compressed / encrypted flags.
C3_LazyReadEqualsLoadedRead ==
    [][\A t \in Threads :
         (/\ ret[t].op = "load_data" /\ ret[t].from = "OnDisk" /\ ret[t].status = "Ok"
          /\ ret'[t].op \in ReadOps
          /\ ret'[t].ent \in DOMAIN diskRead
          /\ diskRead[ret'[t].ent].set)
            => /\ ret'[t].from = "OnMemory"
               /\ Outcome(ret'[t]) = Outcome(diskRead[ret'[t].ent])]_vars

\* C3 witness: an entry compressed and encrypted on disk was read on disk,
\* then loaded, then read from memory with both transforms still to undo.
C3_Witness ==
    /\ ret[MainThread].op = "get_data"
    /\ ret[MainThread].from = "OnMemory"
    /\ ret[MainThread].status = "Ok"
    /\ 1 \in DOMAIN diskRead
    /\ diskRead[1].set
    /\ IsOnMemory(packed_files[1])
    /\ packed_files[1].data.is_compressed
    /\ packed_files[1].data.is_encrypted

\* ---- C4
\* C4: every successful get_data / get_data_and_keep_it returns what the
\* first successful read of the entry returned, and after a successful
\* get_data_and_keep_it the body holds those bytes with both flags cleared.
C4_TransformsUndoneOnce ==
    \A t \in Threads :
        (ret[t].op \in ReadOps /\ ret[t].status = "Ok" /\ ret[t].ent \in DOMAIN firstRead)
            => /\ firstRead[ret[t].ent].set
               /\ ret[t].val = firstRead[ret[t].ent].val
               /\ ret[t].op = "get_data_and_keep_it"
                    => packed_files[ret[t].ent].data = OnMemory(ret[t].val, FALSE, FALSE)

\* C4 witness: get_data_and_keep_it on the in-memory body of an entry that
\* was compressed and encrypted on disk returned the decoded bytes.
C4_Witness ==
    /\ ret[MainThread].op = "get_data_and_keep_it"
    /\ ret[MainThread].from = "OnMemory"
    /\ ret[MainThread].status = "Ok"
    /\ opened[1].onDisk
    /\ opened[1].is_compressed
    /\ opened[1].is_encrypted # NoVersion
    /\ ret[MainThread].val # OwnBytes(1)

\* ---- C5
\* C5 (as claimed): whatever has been written to is_compressed and
\* is_encrypted since the entry was created, a read of the OnDisk entry
\* undoes the transforms recorded at creation, and load_data flags the bytes
\* with them.
C5_RecordedTransforms ==
    \A t \in Threads :
        LET e == ret[t].ent
        IN  (ret[t].from = "OnDisk" /\ ret[t].status # "Io")
              => /\ ret[t].op \in ReadOps
                   => Outcome(ret[t]) =
                        DecryptThenDecompress(OwnBytes(e),
                                              opened[e].is_encrypted # NoVersion,
                                              opened[e].is_compressed)
                 /\ ret[t].op = "load_data"
                   => packed_files[e].data =
                        OnMemory(OwnBytes(e), opened[e].is_compressed,
                                 opened[e].is_encrypted # NoVersion)

\* ---- C6
\* C6: every read that gets its bytes, from disk or from memory, returns
\* them de-obfuscated first (if flagged encrypted) and decompressed second
\* (if flagged compressed).
C6_DecryptFirst ==
    [][\A t \in Threads :
         (Completes(t) /\ ret'[t].op \in ReadOps /\ ret'[t].status # "Io")
            => Outcome(ret'[t]) =
                 DecryptThenDecompress(RawOf(ret'[t].ent), EncryptedNow(ret'[t].ent),
                                       CompressedNow(ret'[t].ent))]_vars

\* C6 witness: get_data undid both transforms of a body held in memory.
C6_Witness ==
    /\ ret[MainThread].op = "get_data"
    /\ ret[MainThread].from = "OnMemory"
    /\ ret[MainThread].status = "Ok"
    /\ packed_files[1].data.is_compressed
    /\ packed_files[1].data.is_encrypted
    /\ ret[MainThread].val # <<>>

\* ---- C7
\* Caller t completes, with its bytes, a read of an entry flagged both
\* compressed and encrypted.
ReadsBothFlagged(t) ==
    /\ Completes(t) /\ ret'[t].op \in ReadOps /\ ret'[t].status # "Io"
    /\ EncryptedNow(ret'[t].ent) /\ CompressedNow(ret'[t].ent)

\* C7 (as claimed): an entry both compressed and encrypted is decompressed
\* first and decrypted second.
C7_DecompressThenDecrypt ==
    [][\A t \in Threads :
         ReadsBothFlagged(t)
            => Outcome(ret'[t]) = DecompressThenDecrypt(RawOf(ret'[t].ent), TRUE, TRUE)]_vars

\* C7 (amended): an entry both compressed and encrypted is decrypted first
\* and decompressed second.
C7_DecryptThenDecompress ==
    [][\A t \in Threads :
         ReadsBothFlagged(t)
            => Outcome(ret'[t]) = DecryptThenDecompress(RawOf(ret'[t].ent), TRUE, TRUE)]_vars

\* C7 witness: get_data_and_keep_it decoded an OnDisk entry that is both
\* compressed and encrypted.
C7_Witness ==
    /\ ret[MainThread].op = "get_data_and_keep_it"
    /\ ret[MainThread].from = "OnDisk"
    /\ ret[MainThread].status = "Ok"
    /\ opened[1].is_compressed
    /\ opened[1].is_encrypted # NoVersion

C9_LoadDataStoresUntouched ==
    [][\A t \in Threads :
         (Completes(t) /\ ret'[t].op = "load_data")
            => LET e == ret'[t].ent
                   pf == packed_files[e]
               IN  /\ ret'[t].from = "OnMemory" => packed_files' = packed_files
                   /\ (ret'[t].from = "OnDisk" /\ ret'[t].status = "Ok")
                        => /\ packed_files'[e] =
                                [pf EXCEPT !.data =
                                   OnMemory(OwnBytes(e), pf.is_compressed,
                                            pf.is_encrypted # NoVersion)]
                           /\ get_size(packed_files'[e]) = get_size(pf)]_vars

\* C9 witness: load_data brought a non-empty compressed and encrypted body
\* into memory.
C9_Witness ==
    /\ ret[MainThread].op = "load_data"
    /\ ret[MainThread].from = "OnDisk"
    /\ ret[MainThread].status = "Ok"
    /\ packed_files[1].data.is_compressed
    /\ packed_files[1].data.is_encrypted
    /\ packed_files[1].data.data # <<>>

\* ---- C10
\* C10: get_size is the length the index recorded while the entry is on
\* disk and the length of the buffer once it is in memory; right after
\* get_data_and_keep_it or set_data it is the length of what get_data returns.
C10_SizeOnWireOrInMemory ==
    /\ \A e \in Ents :
         /\ IsOnDisk(packed_files[e]) => get_size(packed_files[e]) = opened[e].size
         /\ IsOnMemory(packed_files[e])
              => get_size(packed_files[e]) = Len(packed_files[e].data.data)
    /\ \A t \in Threads :
         LET pf == packed_files[ret[t].ent]
         IN  /\ (ret[t].op = "get_data_and_keep_it" /\ ret[t].status = "Ok")
                  => /\ get_size(pf) = Len(ret[t].val)
                     /\ GetDataOnMemory(pf.data) = [status |-> "Ok", val |-> ret[t].val]
             /\ ret[t].op = "set_data"
                  => /\ GetDataOnMemory(pf.data).status = "Ok"
                     /\ get_size(pf) = Len(GetDataOnMemory(pf.data).val)

\* C10 witness: get_data_and_keep_it left a body whose size is not the size
\* the index recorded.
C10_Witness ==
    /\ ret[MainThread].op = "get_data_and_keep_it"
    /\ ret[MainThread].status = "Ok"
    /\ opened[1].onDisk
    /\ get_size(packed_files[1]) # opened[1].size

\* ---- C11
\* A step of a get_data call: the call starts, seeks, reads or returns.
GetDataStep(t) ==
    \/ call[t].op = "get_data"
    \/ call'[t].op = "get_data"
    \/ (Completes(t) /\ ret'[t].op = "get_data")

\* C11: get_data stores nothing in the entry: through every step of the call,
\* whether it returns bytes, a decompression error or an I/O error, the body
\* (variant, buffer, flags, position and size) and the metadata of every
\* entry are what they were, so an OnDisk entry stays OnDisk.
C11_GetDataStoresNothing ==
    [][\A t \in Threads : GetDataStep(t) => packed_files' = packed_files]_vars

\* C11 witness: get_data decoded a non-empty compressed body from disk and
\* the entry is still on disk.
C11_Witness ==
    /\ ret[MainThread].op = "get_data"
    /\ ret[MainThread].from = "OnDisk"
    /\ ret[MainThread].status = "Ok"
    /\ ret[MainThread].val # <<>>
    /\ opened[1].is_compressed
    /\ IsOnDisk(packed_files[1])

\* The values an editor may hand back for a table: one that fits its
\* definition and one that does not.
EditValues == {Decoded("DB", 0, <<>>, well_formed) : well_formed \in BOOLEAN}

\* Editing tables and saving.
NextSave ==
    \/ \E f \in PackFilePaths : OpenPackFiles(<<f>>)
    \/ \E path \in Paths, decoded \in EditValues : SavePackedFileFromView(path, decoded)
    \/ SavePackFile
    \/ \E path \in PackFilePaths : SavePackFileAs(path)

SpecSave ==
    InitLoop({ModDisk}, {s \in AnySettings : ~s.check_for_missing_table_definitions})
    /\ [][NextSave]_vars

\* Toggling compression and saving.
NextToggle ==
    \/ \E f \in PackFilePaths : OpenPackFiles(<<f>>)
    \/ \E state \in BOOLEAN : ChangeDataIsCompressed(state)
    \/ SavePackFile
    \/ \E path \in PackFilePaths : SavePackFileAs(path)

SpecToggle ==
    InitLoop({WorkDisk}, {s \in AnySettings : ~s.check_for_missing_table_definitions})
    /\ [][NextToggle]_vars

\* The paths the edits are about.
EditPaths == {PathDB, PathText}

\* The files an add may find outside the PackFile, each with the path it
\* gets inside: one that can be read and one that cannot.
Found ==
    {[source |-> source, path |-> path] :
        source \in {Source(TRUE, <<0>>), Source(FALSE, <<>>)}, path \in EditPaths}

\* What an add may carry: one file, or two for the same path.
AddBatches == {<<x>> : x \in Found} \cup {<<x, x>> : x \in Found}

\* What AddPackedFiles may carry: the same, or files for two paths with one
\* among them that cannot be read.
AddPairs ==
    AddBatches
    \cup {<<[source |-> Source(TRUE, <<1>>), path |-> PathText],
            [source |-> Source(FALSE, <<>>), path |-> PathDB],
            [source |-> Source(TRUE, <<1>>), path |-> PathDB]>>,
          <<[source |-> Source(FALSE, <<>>), path |-> PathText],
            [source |-> Source(TRUE, <<1>>), path |-> PathDB]>>,
          <<[source |-> Source(TRUE, <<0>>), path |-> PathDB],
            [source |-> Source(TRUE, <<1>>), path |-> PathDB]>>}

\* What a rename may carry: one renaming, or two that cross.
Renamings ==
    {<<<<p, q>>>> : p, q \in EditPaths} \cup {<<<<PathDB, PathText>>, <<PathText, PathDB>>>>}

\* What a new PackedFile may be: a table or a text at the path of its type,
\* or a Loc.
NewPackedFiles ==
    {<<path, get_packed_file_type(path), version>> : path \in EditPaths, version \in {0, 1}}
    \cup {<<PathLoc, "Loc", 0>>}

\* The lists of paths a copy or a delete may carry.
EditBatches == {<<p>> : p \in EditPaths} \cup {<<PathDB, PathText>>}

\* Adding, renaming and deleting entries.
NextEdit ==
    \/ \E f \in PackFilePaths : OpenPackFiles(<<f>>)
    \/ \E f \in PackFilePaths : OpenPackFileExtra(f)
    \/ GetPackFileExtraDataForTreeView
    \/ \E readable \in BOOLEAN : SetGameSelected("warhammer_2", readable)
    \/ \E new \in NewPackedFiles : NewPackedFile(new[1], new[2], new[3])
    \/ \E pairs \in AddPairs : AddPackedFiles(pairs)
    \/ \E found \in AddBatches : AddPackedFilesFromFolder(found)
    \/ \E paths \in EditBatches : AddPackedFilesFromPackFile(paths)
    \/ \E renaming_data \in Renamings : RenamePackedFiles(renaming_data)
    \/ \E paths \in EditBatches : DeletePackedFiles(paths)

SpecEdit ==
    InitLoop({ModDisk}, {s \in AnySettings : s.use_lazy_loading /\ ~s.check_for_missing_table_definitions})
    /\ [][NextEdit]_vars

\* ---- C12
\* C12: every DecodePackedFileTable request, whatever lies at its path, is
\* answered with exactly one response, and that response is a DB table, a
\* Loc table or an error.
C12_TableOrError ==
    command.name = "DecodePackedFileTable" =>
        /\ Len(responses) = 1
        /\ responses[1].kind \in {"DBPackedFileInfo", "LocPackedFileInfo", "Error"}

\* ---- C13
\* C13: a SavePackedFileFromView for a path other than the notes' that no
\* entry of the open PackFile has is answered with the error
\* PackedFileNotFound, and is answered with Success only if the entry at the
\* path now holds the decoded value of the command.
C13_MissingPathIsAnError ==
    (command.name = "SavePackedFileFromView" /\ command.path # NotesPath) =>
        LET i == get_ref_mut_packed_file_by_path(pack_file_decoded, command.path)
        IN  IF i = 0 THEN responses = <<Error("PackedFileNotFound")>>
            ELSE /\ responses = <<Success>>
                 /\ pack_file_decoded.packed_files[i].decoded = command.decoded

\* ---- C14
\* The entries a command purges the cache of: the ones at the paths of a
\* CleanCache, the DB tables for a SetGameSelected.
PurgedBy(cmd, pack) ==
    CASE cmd.name = "CleanCache" ->
           {i \in Indices(pack) :
              \E j \in 1..Len(cmd.paths) : pack.packed_files[i].raw.path = cmd.paths[j]}
      [] cmd.name = "SetGameSelected" -> DBEntries(pack)
      [] OTHER -> {}

\* C14: when a CleanCache or a SetGameSelected purges an entry whose cache
\* fails to encode, the command is answered with an error.
C14_EncodeFailureReported ==
    [][(\E i \in PurgedBy(command', pack_file_decoded) :
           ~encode_and_clean_cache(pack_file_decoded.packed_files[i]).ok)
        => \E n \in 1..Len(responses') : responses'[n].kind = "Error"]_vars

\* ---- C15
\* The PackFiles an open command asks for.
AskedFor(cmd) == IF cmd.name = "LoadAllCAPackFiles" THEN CAPackFiles ELSE cmd.files

\* The records of the PackFile at `file` on disk.
RecordsOf(file) == {files[file].packed_files[i] : i \in 1..Len(files[file].packed_files)}

\* The paths of the entries of the PackFiles at `paths` on disk.
PathsOnDisk(paths) ==
    UNION {{rec.path : rec \in RecordsOf(paths[j])} : j \in 1..Len(paths)}

\* C15: an OpenPackFiles or LoadAllCAPackFiles is answered with exactly one
\* response.  If every PackFile asked for can be read, it is the summary of
\* the open PackFile, which is now the one made of the entries of the
\* PackFiles asked for; otherwise it is an error and the open PackFile is the
\* one it was.
C15_OpenAnswered ==
    [][command'.name \in {"OpenPackFiles", "LoadAllCAPackFiles"} =>
         LET asked == AskedFor(command')
         IN  /\ Len(responses') = 1
             /\ IF \A j \in 1..Len(asked) : files[asked[j]].exists
                THEN /\ responses'[1] = PackFileInfoResponse(pack_file_decoded')
                     /\ PathsOf(pack_file_decoded') = PathsOnDisk(asked)
                     /\ pack_file_decoded'.file_path =
                          (IF Len(asked) = 1 THEN asked[1] ELSE "")
                ELSE /\ responses'[1].kind = "Error"
                     /\ pack_file_decoded' = pack_file_decoded]_vars

\* C15 witness: an open failed while a PackFile with entries was open, and
\* that PackFile is still the open one.
C15_Witness ==
    /\ command.name \in {"OpenPackFiles", "LoadAllCAPackFiles"}
    /\ responses[1].kind = "Error"
    /\ pack_file_decoded.packed_files # <<>>
    /\ pack_file_decoded.file_path \in PackFilePaths

\* ---- C18
\* The bytes an entry holds, in memory or on disk.
StoredBytes(e) == IF IsOnMemory(e.raw) THEN e.raw.data.data ELSE DiskBytes(e)

\* The last of the PackFiles at `paths` that holds an entry at `path`.
LastHolding(paths, path) ==
    LET holding == {j \in 1..Len(paths) : \E rec \in RecordsOf(paths[j]) : rec.path = path}
    IN  paths[CHOOSE j \in holding : \A k \in holding : k <= j]

\* C18: after several PackFiles are opened together, the entry at each path
\* is the one of the last PackFile of the list that holds that path: its
\* bytes and its compression flag are that PackFile's.
C18_LastWins ==
    (command.name = "OpenPackFiles" /\ responses[1].kind = "PackFileInfo") =>
        \A i \in Indices(pack_file_decoded) :
           LET e == pack_file_decoded.packed_files[i]
               last == LastHolding(command.files, e.raw.path)
               rec == CHOOSE r \in RecordsOf(last) : r.path = e.raw.path
           IN  /\ StoredBytes(e) = rec.data
               /\ e.raw.is_compressed = rec.is_compressed

\* C18 witness: two PackFiles that hold different bytes at the same path
\* were opened together, the second one first in the list.
C18_Witness ==
    /\ command.name = "OpenPackFiles"
    /\ command.files = <<"b.pack", "a.pack">>
    /\ responses[1].kind = "PackFileInfo"
    /\ \E ra \in RecordsOf("a.pack"), rb \in RecordsOf("b.pack") :
          ra.path = rb.path /\ ra.data # rb.data

\* ---- C16
\* C16: when an entry's cache fails to encode during a SavePackFile or a
\* SavePackFileAs, no file on disk changes and the command is answered with
\* one error.
C16_SaveIsAtomic ==
    [][(/\ command'.name \in {"SavePackFile", "SavePackFileAs"}
        /\ \E i \in Indices(pack_file_decoded) :
              ~encode_and_clean_cache(pack_file_decoded.packed_files[i]).ok)
       => /\ files' = files
          /\ Len(responses') = 1
          /\ responses'[1].kind = "Error"]_vars

\* C16 witness: a save to a file that exists failed on an entry whose cache
\* does not encode, after an earlier entry had been staged.
C16_Witness ==
    /\ command.name = "SavePackFileAs"
    /\ files[command.file].exists
    /\ responses[1].kind = "Error"
    /\ Len(pack_file_decoded.packed_files) = 2
    /\ IsOnMemory(pack_file_decoded.packed_files[1].raw)
    /\ ~pack_file_decoded.packed_files[2].decoded.well_formed

\* ---- C19
\* C19: a ChangeDataIsCompressed changes no entry and no file; and after a
\* save that succeeds, every entry that had no edited value reads, from
\* memory and from the file written, what it read before the save.
C19_ToggleTouchesNoEntry ==
    [][/\ command'.name = "ChangeDataIsCompressed" =>
            /\ pack_file_decoded'.packed_files = pack_file_decoded.packed_files
            /\ files' = files
       /\ (command'.name \in {"SavePackFile", "SavePackFileAs"}
             /\ responses'[1].kind = "PackFileInfo") =>
            \A i \in Indices(pack_file_decoded) :
               pack_file_decoded.packed_files[i].decoded = NotDecoded =>
                  /\ get_raw_data(pack_file_decoded.packed_files[i])'
                       = get_raw_data(pack_file_decoded.packed_files[i])
                  /\ get_raw_data(ReadEntry(pack_file_decoded.file_path, i, TRUE))'
                       = get_raw_data(pack_file_decoded.packed_files[i])]_vars

\* C19 witness: the PackFile whose entries were stored plain was saved with
\* compression on, and its table now lies compressed on disk.
C19_Witness ==
    /\ command.name = "SavePackFile"
    /\ responses[1].kind = "PackFileInfo"
    /\ pack_file_decoded.compressed
    /\ pack_file_decoded.file_path = "a.pack"
    /\ \E rec \in RecordsOf("a.pack") :
          rec.path = PathDB /\ rec.is_compressed /\ rec.data = compress_data(<<1>>)

\* ---- C17
\* C17: whatever entries are created, added, renamed and deleted, no two
\* entries of the open PackFile have the same path; and a NewPackedFile for
\* a path that is taken is answered with an error and changes nothing.
C17_PathsAreUnique ==
    [][/\ \A i, j \in Indices(pack_file_decoded') :
             pack_file_decoded'.packed_files[i].raw.path
               = pack_file_decoded'.packed_files[j].raw.path => i = j
       /\ (command'.name = "NewPackedFile"
             /\ command'.path \in PathsOf(pack_file_decoded)) =>
            /\ Len(responses') = 1
            /\ responses'[1].kind = "Error"
            /\ pack_file_decoded' = pack_file_decoded]_vars

\* C17 witness: a NewPackedFile for a path that was taken was refused, in a
\* PackFile that holds a table and a text.
C17_Witness ==
    /\ command.name = "NewPackedFile"
    /\ command.path \in PathsOf(pack_file_decoded)
    /\ responses = <<Error("PackedFileAlreadyExists")>>
    /\ PathsOf(pack_file_decoded) = EditPaths

\* ---- C21
\* deobfuscate(bytes, format_version): a self-inverse byte transform keyed by
\* the format version; the key of PFH5 flips every byte, the key of PFH4
\* every other one.
KeyFlips(version, i) == version = "PFH5" \/ i % 2 = 1

deobfuscate(data, version) ==
    [i \in 1..Len(data) |->
        IF KeyFlips(version, i) THEN MaxByte - data[i] ELSE data[i]]

obfuscate(data, version) == deobfuscate(data, version)

\* De-obfuscation with the variant of `version`, then decompression.
DeobfuscateThenDecompress(data, version, comp) ==
    LET d == IF version # NoVersion THEN deobfuscate(data, version) ELSE data
    IN  IF ~comp THEN [status |-> "Ok", val |-> d]
        ELSE IF decompress_data(d).ok
             THEN [status |-> "Ok", val |-> decompress_data(d).data]
             ELSE [status |-> "Decompress", val |-> <<>>]

\* C21 (as claimed): obfuscation is undone by de-obfuscation with the same
\* version, and every read of an entry that is still encrypted de-obfuscates
\* its bytes with the variant of the version carried in is_encrypted.
C21_VariantOfTheEntrysVersion ==
    [][/\ \A b \in BytesUpTo(MaxLen), v \in PFHVersions :
             deobfuscate(obfuscate(b, v), v) = b
       /\ \A t \in Threads :
             (/\ Completes(t)
              /\ ret'[t].op \in ReadOps
              /\ ret'[t].status # "Io"
              /\ EncryptedNow(ret'[t].ent))
                => Outcome(ret'[t]) =
                     DeobfuscateThenDecompress(
                         RawOf(ret'[t].ent), packed_files[ret'[t].ent].is_encrypted,
                         CompressedNow(ret'[t].ent))]_vars

\* ---- C23
\* C23: every step of a call that reads an entry from disk either succeeds
\* (the guard is taken, the seek moves on to read_exact, read_exact hands
\* over the entry's `size` bytes) or ends the call at once with an I/O error, the seek and
\* the read are not tried again, and the entry is left as it was: OnDisk,
\* with the same position and size.
C23_IoFailureSurfaced ==
    [][\A t \in Threads :
         (pc[t] # "idle" /\ pc'[t] # pc[t]) =>
            LET e == call[t].ent
            IN  \/ pc[t] = "lock_seek" /\ pc'[t] = "seek"
                \/ pc[t] = "seek" /\ pc'[t] = "lock_read"
                \/ pc[t] = "lock_read" /\ pc'[t] = "read_exact"
                \/ /\ pc[t] = "read_exact"
                   /\ pc'[t] = "idle"
                   /\ ret'[t].status # "Io"
                   /\ ret'[t].raw = Slice(filePos, packed_files[e].data.size)
                \/ /\ pc'[t] = "idle"
                   /\ ret'[t].status = "Io"
                   /\ ret'[t].op = call[t].op
                   /\ ret'[t].ent = e
                   /\ packed_files' = packed_files
                   /\ IsOnDisk(packed_files'[e])]_vars

\* C23 witness: get_data_and_keep_it came back with an I/O error and the
\* entry, two bytes long, is still on disk where the index put it.
C23_Witness ==
    /\ ret[MainThread].op = "get_data_and_keep_it"
    /\ ret[MainThread].status = "Io"
    /\ pc[MainThread] = "idle"
    /\ IsOnDisk(packed_files[1])
    /\ packed_files[1].data.position = opened[1].position
    /\ packed_files[1].data.size = 2

\* ---- C24
\* C24 (as claimed): a get_data_and_keep_it that fails leaves the entry's
\* body as it found it, the buffer and both in-memory flags included, so a
\* later read starts from what this one started from.
C24_FailedKeepLeavesBody ==
    [][\A t \in Threads :
         (/\ Completes(t)
          /\ ret'[t].op = "get_data_and_keep_it"
          /\ ret'[t].status # "Ok")
            => packed_files'[ret'[t].ent].data = packed_files[ret'[t].ent].data]_vars

\* ---- C26
\* The calls of one caller that read an entry or replace its bytes.
NextCalls ==
    \/ ReadCalls(MainThread)
    \/ \E e \in Ents, data \in NewData : SetData(MainThread, e, data)

SpecCalls == Init /\ [][NextCalls]_vars

\* C26: a body held in memory is flagged still compressed only if the
\* entry's is_compressed is true, and still encrypted only if the entry's
\* is_encrypted is Some.
C26_FlagsWithinPolicy ==
    \A e \in Ents :
        IsOnMemory(packed_files[e]) =>
            /\ packed_files[e].data.is_compressed => packed_files[e].is_compressed
            /\ packed_files[e].data.is_encrypted => packed_files[e].is_encrypted # NoVersion

\* C26 witness: load_data brought in a body that is still compressed and
\* still encrypted.
C26_Witness ==
    /\ ret[MainThread].op = "load_data"
    /\ ret[MainThread].from = "OnDisk"
    /\ IsOnMemory(packed_files[1])
    /\ packed_files[1].data.is_compressed
    /\ packed_files[1].data.is_encrypted
    /\ packed_files[1].data.data # <<>>

\* ---- C27
\* The fields of an entry other than its body.
Policy(pf) ==
    [path |-> pf.path, timestamp |-> pf.timestamp,
     is_compressed |-> pf.is_compressed, is_encrypted |-> pf.is_encrypted]

\* C27: no step of load_data, get_data, get_data_and_keep_it or set_data
\* changes an entry's path, timestamp, is_compressed or is_encrypted.
C27_OnlyTheBodyChanges ==
    [][\A e \in Ents : Policy(packed_files'[e]) = Policy(packed_files[e])]_vars

\* C27 witness: set_data has replaced the bytes of an entry created on disk,
\* and the entry still says compressed and encrypted.
C27_Witness ==
    /\ ret[MainThread].op = "set_data"
    /\ opened[1].onDisk
    /\ packed_files[1].data = OnMemory(lastSet[1].val, FALSE, FALSE)
    /\ lastSet[1].val # <<>>
    /\ packed_files[1].is_compressed
    /\ packed_files[1].is_encrypted = "PFH5"

\* ---- C25
\* Two entries on one handle and two callers, as in InitConc, over short
\* bodies: what the lock does depends on no byte of them.
InitShared ==
    \E b1 \in BytesUpTo(1), b2 \in BytesUpTo(1), c \in BOOLEAN :
        Created(Header \o b1 \o b2,
                <<read_from_data(EntryPath(1), 0, c, NoVersion, OnDisk(HeaderLen, Len(b1))),
                  read_from_data(EntryPath(2), 0, c, NoVersion,
                                 OnDisk(HeaderLen + Len(b1), Len(b2)))>>,
                {})

\* The steps of a call in flight.
Runs(t) ==
    \/ Lock(t)
    \/ Seek(t)
    \/ SeekFails(t)
    \/ ReadExact(t)
    \/ ReadExactFails(t)

\* Each caller is a thread of its own: one that can take a step is not left
\* waiting forever.
SpecShared ==
    InitShared /\ [][NextConc]_vars /\ \A t \in Threads : WF_vars(Runs(t))

DecodePaths == {PathText, PathImage, PathRigidModel, PathCaVp8, NotesPath}

\* What the view of the notes may hand back: a text, empty or not, and a
\* value that is not a text.
NoteValues ==
    {Decoded("Text", 0, rows, TRUE) : rows \in {<<>>, <<0>>, <<1>>}}
    \cup {Decoded("Image", 0, <<1>>, TRUE)}

\* Looking at texts, images, videos and models, and writing the notes.
NextDecode ==
    \/ \E f \in PackFilePaths : OpenPackFiles(<<f>>)
    \/ \E path \in DecodePaths : DecodePackedFileCaVp8(path)
    \/ \E path \in DecodePaths : DecodePackedFileImage(path)
    \/ \E path \in DecodePaths : DecodePackedFileText(path)
    \/ \E path \in DecodePaths : DecodePackedFileRigidModel(path)
    \/ \E decoded \in NoteValues : SavePackedFileFromView(NotesPath, decoded)

SpecDecode ==
    InitLoop({MediaDisk}, {s \in AnySettings : ~s.check_for_missing_table_definitions})
    /\ [][NextDecode]_vars

DecodeRequests ==
    {"DecodePackedFileCaVp8", "DecodePackedFileImage", "DecodePackedFileText",
     "DecodePackedFileRigidModel"}

\* C28 (as claimed): once the handler of a decode request is done, exactly
\* one response has been sent for it, whatever lies at the path.
C28_DecodeAnsweredOnce ==
    command.name \in DecodeRequests => Len(responses) = 1

\* ---- C29
\* C29: whatever command the loop has handled and however its handler went,
\* the handler sent at most one response.
C29_AtMostOneResponse == Len(responses) <= 1

\* C29 witness: an AddPackedFiles of two files broke off at one that could
\* not be read, and the error is all that was sent.
C29_Witness ==
    /\ command.name = "AddPackedFiles"
    /\ Len(command.paths) = 2
    /\ Len(responses) = 1
    /\ responses[1].kind = "Error"

\* ---- C22
\* Changing the settings, the game and the schema, around opening PackFiles
\* and looking at a table.
NextStatics ==
    \/ ResetPackFile
    \/ NewPackFile
    \/ \E f \in PackFilePaths : OpenPackFiles(<<f>>)
    \/ \E settings \in AnySettings, saved \in BOOLEAN : SetSettings(settings, saved)
    \/ \E game \in Games, readable \in BOOLEAN : SetGameSelected(game, readable)
    \/ \E schema \in Schemas, saved \in BOOLEAN : SaveSchema(schema, saved)
    \/ DecodePackedFileTable(PathDB)

SpecStatics == InitLoop({ModDisk}, AnySettings) /\ [][NextStatics]_vars

\* C22: SETTINGS changes only in the step in which the loop handles a
\* SetSettings command, to the settings the command carries, and
\* GAME_SELECTED only in the step in which it handles a SetGameSelected
\* command, to the game the command carries.
C22_WrittenByTheirHandlers ==
    [][/\ SETTINGS' # SETTINGS =>
            (command'.name = "SetSettings" /\ SETTINGS' = command'.settings)
       /\ GAME_SELECTED' # GAME_SELECTED =>
            (command'.name = "SetGameSelected" /\ GAME_SELECTED' = command'.game)]_vars

\* C22 witness: both cells have been written, the settings last, by a
\* SetSettings whose save failed, over a PackFile that is open.
C22_Witness ==
    /\ command.name = "SetSettings"
    /\ responses = <<Error("IOGeneric")>>
    /\ SETTINGS = command.settings
    /\ SETTINGS.use_lazy_loading
    /\ GAME_SELECTED = "attila"
    /\ pack_file_decoded.file_path = "a.pack"

\* ---- C30
\* The commands the UI sends here: they open the PackFile, change it, and
\* drop it.
QueueCommands ==
    {[Command("OpenPackFiles") EXCEPT !.files = <<"a.pack">>],
     [Command("ChangeDataIsCompressed") EXCEPT !.state = TRUE],
     [Command("DeletePackedFiles") EXCEPT !.paths = <<PathText>>],
     Command("ResetPackFile")}

\* The UI thread sends while the loop receives and handles: the recv and
\* the arm of the match are steps of their own.
NextQueue ==
    \/ \E cmd \in QueueCommands : Send(cmd)
    \/ Recv
    \/ handling /\ OpenPackFiles(<<"a.pack">>)
    \/ handling /\ ChangeDataIsCompressed(TRUE)
    \/ handling /\ DeletePackedFiles(<<PathText>>)
    \/ handling /\ ResetPackFile

SpecQueue ==
    InitLoop({ModDisk}, {s \in AnySettings : ~s.check_for_missing_table_definitions})
    /\ [][NextQueue]_vars

\* What the handlers work on.
Archive == <<pack_file_decoded, pack_file_decoded_extra, statics, files>>

\* C30: the channel changes only by a command sent at its end or by the
\* loop taking its oldest command, which it does only when the arm of the
\* command before has ended; and every change of the PackFiles, the statics
\* and the disk, and every response, is made by the arm of the one command
\* the loop has received, in the step that ends it.
C30_OneCommandAtATime ==
    [][/\ inbox' # inbox =>
            \/ /\ Len(inbox') = Len(inbox) + 1
               /\ SubSeq(inbox', 1, Len(inbox)) = inbox
               /\ handling' = handling
               /\ command' = command
            \/ /\ ~handling
               /\ handling'
               /\ inbox # <<>>
               /\ command' = Head(inbox)
               /\ inbox' = Tail(inbox)
       /\ (command' # command \/ (handling' /\ ~handling)) => (~handling /\ inbox' # inbox)
       /\ (Archive' # Archive \/ (responses' # responses /\ responses' # <<>>)) =>
            (handling /\ ~handling' /\ command' = command /\ inbox' = inbox)]_vars

\* C30 witness: the loop has deleted an entry of the PackFile that is open
\* while two more commands were waiting in the channel.
C30_Witness ==
    /\ ~handling
    /\ command.name = "DeletePackedFiles"
    /\ Len(responses) = 1
    /\ Len(inbox) = 2
    /\ pack_file_decoded.file_path = "a.pack"
    /\ Len(pack_file_decoded.packed_files) = 1

\* ---- C31
\* Tables and texts of a PackFile, exported and imported as TSV, with the
\* two commands of the network thread.
TsvPaths == {PathDB, PathText, PathLoc}

NextTsv ==
    \/ \E f \in PackFilePaths : OpenPackFiles(<<f>>)
    \/ \E game \in Games : SetGameSelected(game, TRUE)
    \/ \E path \in TsvPaths : DecodePackedFileTable(path)
    \/ \E path \in TsvPaths, written \in BOOLEAN : ExportTSV(path, written)
    \/ \E path \in TsvPaths, parsed \in BOOLEAN : ImportTSV(path, parsed)
    \/ CheckUpdates
    \/ CheckSchemaUpdates

SpecTsv ==
    InitLoop({WorkDisk}, {s \in AnySettings : ~s.check_for_missing_table_definitions})
    /\ [][NextTsv]_vars

\* C31 (as claimed): the loop is back at its recv after every command; if
\* its thread has ended, the command it received last was CheckUpdates or
\* CheckSchemaUpdates.
C31_OnlyNetworkCommandsEndTheLoop ==
    ~alive => command.name \in {"CheckUpdates", "CheckSchemaUpdates"}

\* ---- C32
\* What decoding the raw body of `e` under `schema` gives, whatever its cache.
DecodedAfresh(e, schema) == decode_return_ref([e EXCEPT !.decoded = NotDecoded], schema)

\* C32 (as claimed): once SetGameSelected has been handled and the schema
\* of the new game is the active one, every DB entry of the PackFile in
\* focus is without a decoded cache, or has the one its raw body decodes to
\* under the new schema; none holds a value decoded or edited before.
C32_NoCacheOfThePreviousSchema ==
    command.name = "SetGameSelected" =>
        \A i \in DBEntries(pack_file_decoded) :
            LET e == pack_file_decoded.packed_files[i]
            IN  \/ e.decoded.kind = "Unknown"
                \/ /\ DecodedAfresh(e, SCHEMA).ok
                   /\ DecodedAfresh(e, SCHEMA).value.decoded = e.decoded

\* ---- C33
\* The commands the UI sends while it switches between games.
GameCommands ==
    {[Command("SetGameSelected") EXCEPT !.game = game] : game \in Games}
    \cup {[Command("OpenPackFiles") EXCEPT !.files = <<"a.pack">>],
          Command("GetReferenceDataFromDefinition")}

\* Switching games with a PackFile open: the UI sends as soon as it is
\* unlocked, the loop answers SetGameSelected before it is done with it.
NextGame ==
    \/ \E cmd \in GameCommands : Send(cmd)
    \/ Recv
    \/ \E game \in Games, readable \in BOOLEAN : SetGameSelectedAnswer(game, readable)
    \/ SetGameSelectedReload
    \/ handling /\ OpenPackFiles(<<"a.pack">>)
    \/ handling /\ GetReferenceDataFromDefinition

SpecGame ==
    InitLoop({ModDisk}, {s \in AnySettings : ~s.check_for_missing_table_definitions})
    /\ [][NextGame]_vars

\* All that SetGameSelected(game) updates is up to date for `game`.
Settled(game) ==
    /\ GAME_SELECTED = game
    /\ SCHEMA \in {NoSchema, SchemaOf(game)}
    /\ DEPENDENCY_DATABASE = load_all_dependency_packfiles(pack_file_decoded.pack_files)
    /\ FAKE_DEPENDENCY_DATABASE = read_pak_file(game)
    /\ pack_file_decoded.file_path # "" => pack_file_decoded.pfh_version = PfhVersionOf(game)

\* C33: Success is sent for SetGameSelected while the dependencies and the
\* version are still those of the game before, but the loop receives the
\* next command only when the schema, the dependencies, the fake
\* dependencies and the version of the PackFile are those of the new game,
\* and the arm of that command reads them as such.
C33_NextCommandSeesTheNewGame ==
    [][/\ (command.name = "SetGameSelected" /\ (command' # command \/ (handling' /\ ~handling)))
            => Settled(command.game) /\ UNCHANGED <<statics, pack_file_decoded>>
       /\ (command'.name = "GetReferenceDataFromDefinition" /\ ~handling' /\ SCHEMA.loaded)
            => /\ Len(responses') = 1
               /\ responses'[1].reference_data =
                    <<SchemaOf(GAME_SELECTED).db, pack_file_decoded.pfh_version,
                      load_all_dependency_packfiles(pack_file_decoded.pack_files),
                      read_pak_file(GAME_SELECTED)>>]_vars

\* C33 witness: with a PackFile open the game was switched to Attila; the
\* answer went out when the fake dependencies and the version were still
\* those of Warhammer 2, and the command received next found those of
\* Attila.
C33_Witness ==
    /\ handling
    /\ command.name = "GetReferenceDataFromDefinition"
    /\ GAME_SELECTED = "attila"
    /\ SCHEMA.loaded
    /\ pack_file_decoded.file_path # ""
    /\ pack_file_decoded.pfh_version = "PFH4"
    /\ FAKE_DEPENDENCY_DATABASE = read_pak_file("attila")
    /\ inbox # <<>>

\* ---- C34
\* C34: in the part of SetGameSelected that sets the version, a PackFile
\* with a file name takes the first version of the game selected and one
\* without a name keeps its own; the entries (bodies, compression flags,
\* encryption markers, paths) and the rest of the PackFile stay as they
\* were.
C34_VersionChangeIsMetadataOnly ==
    [][(command.name = "SetGameSelected" /\ handling /\ ~handling') =>
          /\ pack_file_decoded'.pfh_version =
               IF pack_file_decoded.file_path # "" THEN PfhVersionOf(GAME_SELECTED)
               ELSE pack_file_decoded.pfh_version
          /\ pack_file_decoded' =
               [pack_file_decoded EXCEPT !.pfh_version = pack_file_decoded'.pfh_version]]_vars

\* C34 witness: a PackFile of Warhammer 2 with entries was open when Attila
\* was selected, and it has taken the version of Attila.
C34_Witness ==
    /\ ~handling
    /\ command.name = "SetGameSelected"
    /\ command.game = "attila"
    /\ pack_file_decoded.file_path # ""
    /\ pack_file_decoded.packed_files # <<>>
    /\ pack_file_decoded.pfh_version = "PFH4"
    /\ pack_file_decoded.pfh_version # files["a.pack"].pfh_version

\* ---- C35
\* C35: SaveSchema answers Success and the active schema is the one sent,
\* or it answers with an error and the active schema is the one it was.
C35_SchemaReplacedOnlyIfSaved ==
    [][command'.name = "SaveSchema" =>
          \/ /\ responses' = <<Success>>
             /\ SCHEMA' = command'.schema
          \/ /\ Len(responses') = 1
             /\ responses'[1].kind = "Error"
             /\ SCHEMA' = SCHEMA]_vars

\* C35 witness: a schema other than the one of the game selected was saved
\* and is the active one; the table of the PackFile, of a version it does
\* not hold, no longer decodes.
C35_Witness ==
    /\ command.name = "SaveSchema"
    /\ responses = <<Success>>
    /\ SCHEMA = command.schema
    /\ SCHEMA # SchemaOf(GAME_SELECTED)
    /\ pack_file_decoded.packed_files # <<>>

\* ---- C36
\* C36: NewPackedFile sends one response, Success or an error, and the
\* PackFile gains one entry at most.  Without a schema the response is
\* SchemaNotFound, for a table, a Loc and a text alike; for a table of a
\* version the schema does not define, and for a path that is taken, it is
\* an error; and with an error the PackFile is as it was.  With Success the
\* new entry is the one more entry, at the path asked for.
C36_NewPackedFileOneAnswer ==
    [][command'.name = "NewPackedFile" =>
          LET path == command'.path
              new == command'.decoded
              before == pack_file_decoded.packed_files
              after == pack_file_decoded'.packed_files
          IN  /\ Len(responses') = 1
              /\ responses'[1].kind \in {"Success", "Error"}
              /\ Len(after) <= Len(before) + 1
              /\ ~SCHEMA.loaded => responses'[1] = Error("SchemaNotFound")
              /\ (new.kind = "DB" /\ new.version \notin SCHEMA.db) => responses'[1].kind = "Error"
              /\ IndexIn(before, path) # 0 => responses'[1].kind = "Error"
              /\ responses'[1].kind = "Error" => pack_file_decoded' = pack_file_decoded
              /\ responses'[1] = Success =>
                   /\ Len(after) = Len(before) + 1
                   /\ IndexIn(after, path) # 0
                   /\ after[IndexIn(after, path)].decoded.kind = new.kind
                   /\ \A i \in 1..Len(before) : \E j \in 1..Len(after) : after[j] = before[i]]_vars

\* C36 witness: with a PackFile open and no schema loaded, a new text was
\* asked for at a free path and refused for the missing schema.
C36_Witness ==
    /\ command.name = "NewPackedFile"
    /\ command.decoded.kind = "Text"
    /\ ~SCHEMA.loaded
    /\ responses = <<Error("SchemaNotFound")>>
    /\ pack_file_decoded.packed_files # <<>>
    /\ IndexIn(pack_file_decoded.packed_files, command.path) = 0

\* ---- C37
\* The first of `sources` that cannot be read, or one past the last.
FirstFailure(sources) ==
    LET bad == {i \in 1..Len(sources) : ~sources[i].readable}
    IN  IF bad = {} THEN Len(sources) + 1 ELSE CHOOSE i \in bad : \A j \in bad : i <= j

\* C37: AddPackedFiles sends one response, Success if every source could be
\* read and an error if not.  Each path of a pair before the first failure
\* holds the bytes of the last such pair for it, in memory and not decoded,
\* whether or not the path was taken; every other entry is as it was, so
\* nothing of the failed pair or of a pair after it has been added.
C37_StopsAtTheFirstFailure ==
    [][command'.name = "AddPackedFiles" =>
          LET paths == command'.paths
              sources == command'.sources
              f == FirstFailure(sources)
              before == pack_file_decoded.packed_files
              after == pack_file_decoded'.packed_files
              done(path) == {i \in 1..(f - 1) : paths[i] = path}
              last(path) == CHOOSE i \in done(path) : \A j \in done(path) : j <= i
          IN  /\ Len(responses') = 1
              /\ IF f > Len(sources) THEN responses'[1] = Success
                 ELSE responses'[1].kind = "Error"
              /\ \A i, j \in 1..Len(after) : after[i].raw.path = after[j].raw.path => i = j
              /\ \A i \in 1..(f - 1) :
                    /\ IndexIn(after, paths[i]) # 0
                    /\ after[IndexIn(after, paths[i])] =
                         Entry(read_from_vec(paths[i], 0, FALSE, sources[last(paths[i])].data),
                               "", NotDecoded)
              /\ \A i \in 1..Len(before) :
                    done(before[i].raw.path) = {} => \E j \in 1..Len(after) : after[j] = before[i]
              /\ \A j \in 1..Len(after) :
                    done(after[j].raw.path) = {} => \E i \in 1..Len(before) : before[i] = after[j]]_vars

\* C37 witness: of three pairs the second could not be read; the text of
\* the first is in the PackFile, the table the second and the third were
\* for is the one that was there, still on disk.
C37_Witness ==
    /\ command.name = "AddPackedFiles"
    /\ Len(command.paths) = 3
    /\ FirstFailure(command.sources) = 2
    /\ Len(responses) = 1
    /\ responses[1].kind = "Error"
    /\ IndexIn(pack_file_decoded.packed_files, PathText) # 0
    /\ pack_file_decoded.packed_files[IndexIn(pack_file_decoded.packed_files, PathText)].raw.data
         = OnMemory(<<1>>, FALSE, FALSE)
    /\ IndexIn(pack_file_decoded.packed_files, PathDB) # 0
    /\ IsOnDisk(pack_file_decoded.packed_files[IndexIn(pack_file_decoded.packed_files, PathDB)].raw)

\* ---- C38
\* The text of the notes of a PackFile: empty if it has none.
NoteText(pack) == IF pack.notes.some THEN pack.notes.contents ELSE <<>>

\* C38: SavePackedFileFromView of a text for the reserved path stores the
\* text as the notes of the PackFile, as no notes if the text is empty, and
\* DecodePackedFileText for the reserved path answers with a text whose
\* contents are the notes, empty if there are none: the text saved is the
\* text decoded.  Both leave every entry as it was, bodies on disk
\* included, also when an entry sits at the reserved path.
C38_NotesAreNotAnEntry ==
    [][/\ (/\ command'.name = "SavePackedFileFromView"
           /\ command'.path = NotesPath
           /\ command'.decoded.kind = "Text") =>
             /\ NoteText(pack_file_decoded') = command'.decoded.rows
             /\ pack_file_decoded'.notes.some = (command'.decoded.rows # <<>>)
             /\ pack_file_decoded' = [pack_file_decoded EXCEPT !.notes = pack_file_decoded'.notes]
             /\ responses' = <<Success>>
       /\ (command'.name = "DecodePackedFileText" /\ command'.path = NotesPath) =>
             /\ Len(responses') = 1
             /\ responses'[1].kind = "Text"
             /\ responses'[1].table = Decoded("Text", 0, NoteText(pack_file_decoded), TRUE)
             /\ pack_file_decoded' = pack_file_decoded]_vars

\* C38 witness: a PackFile with an entry at the reserved path is open, a
\* text was saved as its notes, and the reserved path was decoded: the
\* answer is the text saved, not the bytes of the entry.
C38_Witness ==
    /\ command.name = "DecodePackedFileText"
    /\ command.path = NotesPath
    /\ pack_file_decoded.notes = SomeNotes(<<1>>)
    /\ Len(responses) = 1
    /\ responses[1].table.rows = <<1>>
    /\ IndexIn(pack_file_decoded.packed_files, NotesPath) # 0
    /\ pack_file_decoded.packed_files[IndexIn(pack_file_decoded.packed_files, NotesPath)].decoded
         = NotDecoded

\* ---- C39
\* C39: the extra PackFile changes only in the step in which the loop
\* handles OpenPackFileExtra and the open succeeds, and then to the
\* PackFile opened; GetPackFileExtraDataForTreeView reports it and
\* AddPackedFilesFromPackFile copies out of it, and both leave it as it
\* was.  OpenPackFileExtra, answered with the info of the PackFile or with
\* an error, leaves the PackFile in focus as it was.
C39_ExtraIsReadOnly ==
    [][/\ pack_file_decoded_extra' # pack_file_decoded_extra =>
            /\ command'.name = "OpenPackFileExtra"
            /\ responses' = <<PackFileInfoResponse(pack_file_decoded_extra')>>
            /\ pack_file_decoded_extra'.file_path = command'.file
       /\ command'.name = "OpenPackFileExtra" =>
            /\ pack_file_decoded' = pack_file_decoded
            /\ Len(responses') = 1
            /\ responses'[1].kind = "Error" => pack_file_decoded_extra' = pack_file_decoded_extra
       /\ command'.name = "GetPackFileExtraDataForTreeView" =>
            /\ Len(responses') = 1
            /\ responses'[1].info = PackFileInfo(pack_file_decoded_extra)
            /\ Len(responses'[1].paths) = Len(pack_file_decoded_extra.packed_files)
       /\ (command'.name = "AddPackedFilesFromPackFile" /\ responses'[1].kind # "Error") =>
            \A i \in 1..Len(command'.paths) :
               /\ IndexIn(pack_file_decoded_extra'.packed_files, command'.paths[i]) # 0
               /\ IndexIn(pack_file_decoded'.packed_files, command'.paths[i]) # 0]_vars

\* C39 witness: with one PackFile in focus and another opened as the extra
\* one, an entry was copied from the extra one, which still holds it and
\* differs from the PackFile in focus.
C39_Witness ==
    /\ command.name = "AddPackedFilesFromPackFile"
    /\ Len(responses) = 1
    /\ responses[1].kind = "VecPathType"
    /\ pack_file_decoded.file_path # ""
    /\ pack_file_decoded_extra.file_path # ""
    /\ pack_file_decoded_extra.packed_files # <<>>
    /\ pack_file_decoded.packed_files # pack_file_decoded_extra.packed_files
    /\ \A i \in 1..Len(command.paths) :
          IndexIn(pack_file_decoded_extra.packed_files, command.paths[i]) # 0

====
